---- MODULE Spec2Model ----
(***************************************************************************)
(* Model of the sales-data cleaning pipeline                               *)
(* (data_pipeline/cleaning/clean_sales_data.py): the vocabulary loader,    *)
(* the category and region resolvers, the chunk cleaner _clean_chunk and   *)
(* the streaming loop clean_csv_to_parquet, with the caches of the         *)
(* resolvers; of scripts/build_region_map.py; and of the monthly and       *)
(* category builders of aggregations/build.py and build_all_aggregations.  *)
(*                                                                         *)
(* Strings are sequences of one-character strings.  Numbers read from the  *)
(* CSV are cells [nan, v]: v is a fixed-point integer (quantity in tenths, *)
(* unit_price in cents, discount_percent in hundredths, revenue in cents). *)
(***************************************************************************)
EXTENDS Integers, Sequences, FiniteSets, TLC

VARIABLES
    canonical_categories,  \* _CANONICAL_CATEGORIES: sorted list of category names
    canonical_lookup,      \* _CANONICAL_LOOKUP: casefolded name -> name
    canonical_region_set,  \* _CANONICAL_REGION_SET
    region_map,            \* _REGION_MAP: ordered dict, a sequence of <<key, value>>
    region_map_casefold,   \* _REGION_MAP_CASEFOLD: casefolded key -> value
    cfg,                   \* CleanConfig of the run
    header,                \* the header of the source CSV: its column names
    file,                  \* the rows of the source CSV, in file order
    pos,                   \* number of rows the chunked reader has handed out
    seen_order_ids,        \* the run's set of accepted order ids
    writer,                \* None, or the schema the parquet writer was opened with
    clean_sink,            \* tables written to the clean parquet file, in order
    rejected_csv_written,  \* whether the rejected CSV got its header
    rejected_sink,         \* the rejected CSV: its header and its lines
    last,                  \* (cleaned, rejected) returned by the latest _clean_chunk
    pc,                    \* position of the run
    call,                  \* a direct call of a resolver: its argument and result
    memo                   \* the caches of the resolvers and of the date parser

vars == <<canonical_categories, canonical_lookup, canonical_region_set, region_map,
          region_map_casefold, cfg, header, file, pos, seen_order_ids, writer, clean_sink,
          rejected_csv_written, rejected_sink, last, pc, call, memo>>

vocabulary == <<canonical_categories, canonical_lookup, canonical_region_set, region_map,
                region_map_casefold>>

run_state == <<cfg, header, file, pos, seen_order_ids, writer, clean_sink, rejected_csv_written,
               rejected_sink, last>>

\* Python's None / pandas' missing value.
None == <<"None">>

\* The sentinel target of the region alias map.
UNKNOWN == <<"U", "N", "K", "N", "O", "W", "N">>

(***************************************************************************)
(* Characters and strings                                                  *)
(***************************************************************************)

\* The characters of the modelled strings, in code-point order.
CharTable == <<" ", "A", "B", "a", "b">>

Alphabet == {CharTable[i] : i \in 1..Len(CharTable)}

CharCode(c) == CHOOSE i \in 1..Len(CharTable) : CharTable[i] = c

\* str.casefold on one character.
FoldChar(c) == IF c = "A" THEN "a" ELSE IF c = "B" THEN "b" ELSE c

\* str.casefold
Casefold(s) == [i \in 1..Len(s) |-> FoldChar(s[i])]

RECURSIVE LStrip(_)
LStrip(s) == IF s # <<>> /\ Head(s) = " " THEN LStrip(Tail(s)) ELSE s

RECURSIVE RStrip(_)
RStrip(s) == IF s # <<>> /\ s[Len(s)] = " " THEN RStrip(SubSeq(s, 1, Len(s) - 1)) ELSE s

\* str.strip
Strip(s) == RStrip(LStrip(s))

\* Python's < on strings: lexicographic by code point.
RECURSIVE StrLess(_, _)
StrLess(a, b) ==
    IF b = <<>> THEN FALSE
    ELSE IF a = <<>> THEN TRUE
    ELSE IF Head(a) # Head(b) THEN CharCode(Head(a)) < CharCode(Head(b))
    ELSE StrLess(Tail(a), Tail(b))

\* sorted(S) for a set of strings.
RECURSIVE Sorted(_)
Sorted(S) ==
    IF S = {} THEN <<>>
    ELSE LET m == CHOOSE x \in S : \A y \in S \ {x} : StrLess(x, y)
         IN <<m>> \o Sorted(S \ {m})

Abs(n) == IF n < 0 THEN -n ELSE n

Min2(a, b) == IF a <= b THEN a ELSE b

RECURSIVE SeqMin(_)
SeqMin(s) == IF Len(s) = 1 THEN s[1] ELSE Min2(s[1], SeqMin(Tail(s)))

(***************************************************************************)
(* _levenshtein                                                            *)
(***************************************************************************)

\* The inner loop over the characters of right: the finished row `current`.
\* current[j] is Python's current[j - 1].
RECURSIVE LevRow(_, _, _, _, _)
LevRow(l_char, right, previous, current, j) ==
    IF j > Len(right) THEN current
    ELSE LET cost == IF l_char = right[j] THEN 0 ELSE 1
             insert_cost == current[j] + 1
             delete_cost == previous[j + 1] + 1
             replace_cost == previous[j] + cost
             best_cost == Min2(insert_cost, Min2(delete_cost, replace_cost))
         IN LevRow(l_char, right, previous, Append(current, best_cost), j + 1)

\* The row minimum that triggers the early abort.
RowMinDistance(current) == SeqMin(current)

\* The outer loop over the characters of left, from row i on.
RECURSIVE LevRows(_, _, _, _, _)
LevRows(left, right, previous, i, max_distance) ==
    IF i > Len(left) THEN previous[Len(previous)]
    ELSE LET current == LevRow(left[i], right, previous, <<i>>, 1)
         IN IF RowMinDistance(current) > max_distance THEN max_distance + 1
            ELSE LevRows(left, right, current, i + 1, max_distance)

\* A variant of _levenshtein: the shortcut is taken one length difference too early.
LevenshteinShortcutEarly(left, right, max_distance) ==
    IF left = right THEN 0
    ELSE IF left = <<>> THEN Len(right)
    ELSE IF right = <<>> THEN Len(left)
    ELSE IF Abs(Len(left) - Len(right)) >= max_distance THEN max_distance + 1
    ELSE LevRows(left, right, [j \in 1..(Len(right) + 1) |-> j - 1], 1, max_distance)

_levenshtein(left, right, max_distance) ==
    IF left = right THEN 0
    ELSE IF left = <<>> THEN Len(right)
    ELSE IF right = <<>> THEN Len(left)
    ELSE IF Abs(Len(left) - Len(right)) > max_distance THEN max_distance + 1
    ELSE LevRows(left, right, [j \in 1..(Len(right) + 1) |-> j - 1], 1, max_distance)

_FUZZY_THRESHOLD == 2

(***************************************************************************)
(* The vocabulary loader (module level of clean_sales_data.py)             *)
(***************************************************************************)

\* {str(x).strip() for x in items if x}: the names of a JSON array of strings.
StrippedNames(items) == {Strip(items[i]) : i \in {k \in 1..Len(items) : items[k] # <<>>}}

LoadCanonicalCategories(common_categories) == Sorted(StrippedNames(common_categories))

\* {category.casefold(): category for category in categories}: the last one wins.
LoadCanonicalLookup(categories) ==
    [k \in {Casefold(categories[i]) : i \in 1..Len(categories)} |->
        LET last_i == CHOOSE i \in 1..Len(categories) :
                          /\ Casefold(categories[i]) = k
                          /\ \A j \in (i + 1)..Len(categories) : Casefold(categories[j]) # k
        IN categories[last_i]]

LoadCanonicalRegionSet(common_regions) == StrippedNames(common_regions)

\* dict[key] = value on an ordered dict kept as a sequence of <<key, value>>.
DictSet(d, key, value) ==
    IF \E i \in 1..Len(d) : d[i][1] = key
    THEN [i \in 1..Len(d) |-> IF d[i][1] = key THEN <<key, value>> ELSE d[i]]
    ELSE Append(d, <<key, value>>)

DictHas(d, key) == \E i \in 1..Len(d) : d[i][1] = key

\* dict.get(key): None when the key is absent.
DictGet(d, key) ==
    IF DictHas(d, key) THEN d[CHOOSE i \in 1..Len(d) : d[i][1] = key][2] ELSE None

\* The check of one mapped value: it is "UNKNOWN" or a canonical region.
RegionTargetOk(value, region_set) == value = UNKNOWN \/ value \in region_set

\* The loop over _REGION_MAP_RAW.items(): TRUE when it raises ValueError.
RegionMapRaises(region_map_raw, region_set) ==
    \E i \in 1..Len(region_map_raw) :
        /\ Strip(region_map_raw[i][1]) # <<>>
        /\ ~RegionTargetOk(Strip(region_map_raw[i][2]), region_set)

\* The loop over _REGION_MAP_RAW.items(), entries 1..n done: _REGION_MAP.
RECURSIVE LoadRegionMap(_, _)
LoadRegionMap(region_map_raw, n) ==
    IF n = 0 THEN <<>>
    ELSE LET d == LoadRegionMap(region_map_raw, n - 1)
             key == Strip(region_map_raw[n][1])
             value == Strip(region_map_raw[n][2])
         IN IF key = <<>> THEN d ELSE DictSet(d, key, value)

\* {key.casefold(): value for key, value in _REGION_MAP.items()}: the last one wins.
LoadRegionMapCasefold(d) ==
    [k \in {Casefold(d[i][1]) : i \in 1..Len(d)} |->
        LET last_i == CHOOSE i \in 1..Len(d) :
                          /\ Casefold(d[i][1]) = k
                          /\ \A j \in (i + 1)..Len(d) : Casefold(d[j][1]) # k
        IN d[last_i][2]]

(***************************************************************************)
(* The resolvers                                                           *)
(***************************************************************************)

\* Faulty variant of BestCategory: the first candidate within the threshold is taken
\* and the search stops.
RECURSIVE BestCategoryFirstFit(_, _, _, _, _)
BestCategoryFirstFit(lowered, categories, i, best_match, best_distance) ==
    IF i > Len(categories) \/ best_match # None THEN <<best_match, best_distance>>
    ELSE LET candidate == categories[i]
             distance == _levenshtein(lowered, Casefold(candidate), _FUZZY_THRESHOLD)
         IN IF distance < best_distance
            THEN BestCategoryFirstFit(lowered, categories, i + 1, candidate, distance)
            ELSE BestCategoryFirstFit(lowered, categories, i + 1, best_match, best_distance)

\* A variant of BestCategory: a candidate as near as the best so far replaces it, so that
\* the last of the nearest wins.
RECURSIVE BestCategoryLastOfTies(_, _, _, _, _)
BestCategoryLastOfTies(lowered, categories, i, best_match, best_distance) ==
    IF i > Len(categories) \/ best_distance = 0 THEN <<best_match, best_distance>>
    ELSE LET candidate == categories[i]
             distance == _levenshtein(lowered, Casefold(candidate), _FUZZY_THRESHOLD)
         IN IF distance <= best_distance
            THEN BestCategoryLastOfTies(lowered, categories, i + 1, candidate, distance)
            ELSE BestCategoryLastOfTies(lowered, categories, i + 1, best_match,
                                        best_distance)

\* The loop over _CANONICAL_CATEGORIES from candidate i on: <<best_match, best_distance>>.
RECURSIVE BestCategory(_, _, _, _, _)
BestCategory(lowered, categories, i, best_match, best_distance) ==
    IF i > Len(categories) \/ best_distance = 0 THEN <<best_match, best_distance>>
    ELSE LET candidate == categories[i]
             distance == _levenshtein(lowered, Casefold(candidate), _FUZZY_THRESHOLD)
         IN IF distance < best_distance
            THEN BestCategory(lowered, categories, i + 1, candidate, distance)
            ELSE BestCategory(lowered, categories, i + 1, best_match, best_distance)

ResolveCategoryWith(value, categories, lookup) ==
    LET normalised == Strip(value)
        lowered == Casefold(normalised)
        best == BestCategory(lowered, categories, 1, None, _FUZZY_THRESHOLD + 1)
    IN IF normalised = <<>> THEN None
       ELSE IF lowered \in DOMAIN lookup THEN lookup[lowered]
       ELSE IF best[1] # None /\ best[2] <= _FUZZY_THRESHOLD THEN best[1]
       ELSE None

_resolve_category(value) == ResolveCategoryWith(value, canonical_categories, canonical_lookup)

\* A variant of ResolveRegionWith with a fuzzy fallback: a value that is no key of the alias
\* map resolves to the first target of the map within two edits of it.
ResolveRegionFuzzy(value, rmap, rmap_casefold) ==
    LET normalised == Strip(value)
        exact == DictGet(rmap, normalised)
        mapped == IF exact # None THEN exact
                  ELSE IF Casefold(normalised) \in DOMAIN rmap_casefold
                       THEN rmap_casefold[Casefold(normalised)]
                       ELSE None
        near == {i \in 1..Len(rmap) :
                    /\ rmap[i][2] # UNKNOWN
                    /\ _levenshtein(Casefold(normalised), Casefold(rmap[i][2]), 2) <= 2}
    IN IF normalised = <<>> THEN None
       ELSE IF mapped = UNKNOWN THEN None
       ELSE IF mapped # None THEN mapped
       ELSE IF near # {} THEN rmap[CHOOSE i \in near : \A j \in near : i <= j][2]
       ELSE None

\* Faulty variant of ResolveRegionWith: only the case-folded copy is consulted.
ResolveRegionCasefoldOnly(value, rmap, rmap_casefold) ==
    LET normalised == Strip(value)
        mapped == IF Casefold(normalised) \in DOMAIN rmap_casefold
                  THEN rmap_casefold[Casefold(normalised)]
                  ELSE None
    IN IF normalised = <<>> THEN None
       ELSE IF mapped = None \/ mapped = UNKNOWN THEN None
       ELSE mapped

ResolveRegionWith(value, rmap, rmap_casefold) ==
    LET normalised == Strip(value)
        exact == DictGet(rmap, normalised)
        mapped == IF exact # None THEN exact
                  ELSE IF Casefold(normalised) \in DOMAIN rmap_casefold
                       THEN rmap_casefold[Casefold(normalised)]
                       ELSE None
    IN IF normalised = <<>> THEN None
       ELSE IF mapped = None \/ mapped = UNKNOWN THEN None
       ELSE mapped

_resolve_region(value) == ResolveRegionWith(value, region_map, region_map_casefold)

(***************************************************************************)
(* Column cleaners                                                         *)
(***************************************************************************)

\* A number of the CSV: nan for an empty or non-numeric field.
Num(v) == [nan |-> FALSE, v |-> v]

NaN == [nan |-> TRUE, v |-> 0]

\* round(): n / d rounded to an integer, halves to the even neighbour (n >= 0).
RoundHalfEven(n, d) ==
    LET q == n \div d
        r == n % d
    IN IF 2 * r < d THEN q
       ELSE IF 2 * r > d THEN q + 1
       ELSE IF q % 2 = 0 THEN q ELSE q + 1

\* series.fillna("").astype(str).str.strip() on one text value ("" is a missing one).
_normalise_string(value) == Strip(value)

\* _clean_numeric(series, dtype="int") on one quantity, in tenths:
\* to_numeric, fillna(0), clip(lower=0), round().
CleanQuantity(cell) ==
    LET numeric == IF cell.nan THEN 0 ELSE cell.v
        clipped == IF numeric < 0 THEN 0 ELSE numeric
    IN Num(10 * RoundHalfEven(clipped, 10))

\* _clean_numeric(series) on one unit price, in cents: to_numeric, fillna(0.0).
CleanUnitPrice(cell) == IF cell.nan THEN Num(0) ELSE Num(cell.v)

\* _clean_discount on one discount, in hundredths: to_numeric, fillna(0.0), clip(0, 1).
_clean_discount(cell) ==
    LET numeric == IF cell.nan THEN 0 ELSE cell.v
    IN Num(IF numeric < 0 THEN 0 ELSE IF numeric > 100 THEN 100 ELSE numeric)

Count(s, c) == Cardinality({i \in 1..Len(s) : s[i] = c})

\* The regular expression ^[^@\s]+@[^@\s]+\.[^@\s]+$ of _clean_customer_email.
EmailMatches(e) ==
    /\ Count(e, "@") = 1
    /\ Count(e, " ") = 0
    /\ LET at == CHOOSE i \in 1..Len(e) : e[i] = "@"
       IN /\ at > 1
          /\ \E dot \in (at + 2)..(Len(e) - 1) : e[dot] = "."

\* A variant of _clean_customer_email: the lower-cased value is kept whether it matches
\* or not.
CleanCustomerEmailUnvalidated(value) == Casefold(_normalise_string(value))

\* _clean_customer_email on one value: the lower-cased email, or pd.NA.
_clean_customer_email(value) ==
    LET emails == Casefold(_normalise_string(value))
    IN IF EmailMatches(emails) THEN emails ELSE None

(***************************************************************************)
(* _parse_multiple_date_formats                                            *)
(***************************************************************************)

Digits == <<"0", "1", "2", "3", "4", "5", "6", "7", "8", "9">>

IsDigit(c) == \E i \in 1..10 : Digits[i] = c

DigitVal(c) == (CHOOSE i \in 1..10 : Digits[i] = c) - 1

RECURSIVE NumVal(_)
NumVal(s) == IF s = <<>> THEN 0 ELSE 10 * NumVal(SubSeq(s, 1, Len(s) - 1)) + DigitVal(s[Len(s)])

AllDigits(s) == \A i \in 1..Len(s) : IsDigit(s[i])

IsLeap(y) == (y % 4 = 0 /\ y % 100 # 0) \/ y % 400 = 0

DaysInMonth(y, m) ==
    IF m = 2 THEN (IF IsLeap(y) THEN 29 ELSE 28)
    ELSE IF m \in {4, 6, 9, 11} THEN 30 ELSE 31

\* <<y, m, d>> before-or-equal in calendar order.
DateLeq(a, b) ==
    \/ a[1] < b[1]
    \/ a[1] = b[1] /\ a[2] < b[2]
    \/ a[1] = b[1] /\ a[2] = b[2] /\ a[3] <= b[3]

\* The days pd.Timestamp can hold at midnight.
TimestampInBounds(date) == DateLeq(<<1677, 9, 22>>, date) /\ DateLeq(date, <<2262, 4, 11>>)

\* _date_formats: the separator and the positions of year, month and day.
_date_formats ==
    << [sep |-> "-", y |-> 1, m |-> 2, d |-> 3],
       [sep |-> "/", y |-> 3, m |-> 1, d |-> 2],
       [sep |-> "-", y |-> 3, m |-> 2, d |-> 1],
       [sep |-> "/", y |-> 1, m |-> 2, d |-> 3] >>

\* The date <<y, m, d>> when it is one of the calendar that a Timestamp holds, else None.
ValidDate(date) ==
    IF /\ date[2] \in 1..12
       /\ date[3] \in 1..DaysInMonth(date[1], date[2])
       /\ TimestampInBounds(date)
    THEN date ELSE None

\* A variant of ToDatetime: either separator is taken for the one of the format.
ToDatetimeAnySeparator(date_string, fmt) ==
    LET seps == {i \in 1..Len(date_string) : date_string[i] \in {"-", "/"}}
    IN IF Cardinality(seps) # 2 THEN None
       ELSE LET s1 == CHOOSE i \in seps : \A j \in seps : i <= j
                s2 == CHOOSE i \in seps : \A j \in seps : j <= i
                parts == << SubSeq(date_string, 1, s1 - 1),
                            SubSeq(date_string, s1 + 1, s2 - 1),
                            SubSeq(date_string, s2 + 1, Len(date_string)) >>
            IN IF /\ Len(parts[fmt.y]) = 4
                  /\ Len(parts[fmt.m]) \in {1, 2}
                  /\ Len(parts[fmt.d]) \in {1, 2}
                  /\ AllDigits(parts[1] \o parts[2] \o parts[3])
               THEN ValidDate(<<NumVal(parts[fmt.y]), NumVal(parts[fmt.m]),
                                NumVal(parts[fmt.d])>>)
               ELSE None

\* pd.to_datetime(date_string, format=fmt): the date <<y, m, d>>, or None when it raises.
ToDatetime(date_string, fmt) ==
    LET seps == {i \in 1..Len(date_string) : date_string[i] = fmt.sep}
    IN IF Cardinality(seps) # 2 THEN None
       ELSE LET s1 == CHOOSE i \in seps : \A j \in seps : i <= j
                s2 == CHOOSE i \in seps : \A j \in seps : j <= i
                parts == << SubSeq(date_string, 1, s1 - 1),
                            SubSeq(date_string, s1 + 1, s2 - 1),
                            SubSeq(date_string, s2 + 1, Len(date_string)) >>
            IN IF /\ Len(parts[fmt.y]) = 4
                  /\ Len(parts[fmt.m]) \in {1, 2}
                  /\ Len(parts[fmt.d]) \in {1, 2}
                  /\ AllDigits(parts[1] \o parts[2] \o parts[3])
               THEN ValidDate(<<NumVal(parts[fmt.y]), NumVal(parts[fmt.m]),
                                NumVal(parts[fmt.d])>>)
               ELSE None

\* The fallback loop over _date_formats from format i on.
RECURSIVE DateFallback(_, _)
DateFallback(date_string, i) ==
    IF i > Len(_date_formats) THEN None
    ELSE LET result == ToDatetime(date_string, _date_formats[i])
         IN IF result # None THEN result ELSE DateFallback(date_string, i + 1)

\* The format the length-10 fast path tries first: 0 when no pattern matches.
FastPathFormat(date_string) ==
    IF Len(date_string) # 10 THEN 0
    ELSE IF date_string[5] = "-" /\ date_string[8] = "-" THEN 1
    ELSE IF date_string[3] = "/" /\ date_string[6] = "/" THEN 2
    ELSE IF date_string[3] = "-" /\ date_string[6] = "-" THEN 3
    ELSE IF date_string[5] = "/" /\ date_string[8] = "/" THEN 4
    ELSE 0

\* The result of the fast path when it returned one, else the fallback loop.
FastPathOr(date_string, result) ==
    IF result # None THEN result ELSE DateFallback(date_string, 1)

_parse_multiple_date_formats(date_string) ==
    IF date_string = <<>> \/ date_string = None THEN None
    ELSE IF FastPathFormat(date_string) = 0 THEN DateFallback(date_string, 1)
    ELSE FastPathOr(date_string,
                    ToDatetime(date_string, _date_formats[FastPathFormat(date_string)]))

\* Days from 1970-01-01 to the date <<y, m, d>> (proleptic Gregorian calendar).
DaysFromCivil(date) ==
    LET y == IF date[2] <= 2 THEN date[1] - 1 ELSE date[1]
        era == y \div 400
        yoe == y - era * 400
        mp == (date[2] + 9) % 12
        doy == (153 * mp + 2) \div 5 + date[3] - 1
        doe == yoe * 365 + yoe \div 4 - yoe \div 100 + doy
    IN era * 146097 + doe - 719468

\* Timestamp.astype("int64") // 1_000_000_000 for a midnight timestamp.
UnixSeconds(date) == DaysFromCivil(date) * 86400

\* pd.Timestamp.now(): the day of the run.
Now == <<2025, 6, 15>>

\* min_date <= sale_date <= max_date for a midnight sale_date; now is later than midnight.
InDateRange(date) ==
    /\ ~DateLeq(date, <<Now[1] - 20, Now[2], Now[3]>>)
    /\ DateLeq(date, <<Now[1] + 1, Now[2], Now[3]>>)

(***************************************************************************)
(* DataFrames                                                              *)
(*                                                                         *)
(* A frame is its column labels and its rows.  A row is a record of all    *)
(* the cells a frame can hold; idx is its index label, the number of its   *)
(* line in the source file, which is kept on every output as the record of *)
(* where the row came from.  A cell of a column the frame lacks is NA.     *)
(***************************************************************************)

\* A missing anomaly_flag or rejection_reason.
NA == "NA"

Frame(cols, rows) == [cols |-> cols, rows |-> rows]

\* pd.DataFrame()
EmptyDataFrame == Frame(<<>>, <<>>)

\* The header of the source CSV (generate_ecommerce_data.py).
InputColumns ==
    <<"order_id", "product_name", "category", "quantity", "unit_price",
      "discount_percent", "region", "sale_date", "customer_email", "revenue">>

HasColumn(cols, c) == \E i \in 1..Len(cols) : cols[i] = c

AddColumn(cols, c) == IF HasColumn(cols, c) THEN cols ELSE Append(cols, c)

\* A variant of RowsWhere: the rows inside the mask come out last first.
RECURSIVE RowsWhereReversed(_, _)
RowsWhereReversed(rows, mask) ==
    IF rows = <<>> THEN <<>>
    ELSE IF Head(rows).idx \in mask
    THEN RowsWhereReversed(Tail(rows), mask) \o <<Head(rows)>>
    ELSE RowsWhereReversed(Tail(rows), mask)

\* data[mask]: the rows inside the mask, in the order they have in the frame.
RECURSIVE RowsWhere(_, _)
RowsWhere(rows, mask) ==
    IF rows = <<>> THEN <<>>
    ELSE IF Head(rows).idx \in mask THEN <<Head(rows)>> \o RowsWhere(Tail(rows), mask)
    ELSE RowsWhere(Tail(rows), mask)

Index(frame) == {frame.rows[i].idx : i \in 1..Len(frame.rows)}

IsEmpty(frame) == frame.rows = <<>>

\* The cell of a column in a line of the file: missing when the header lacks the column.
Cell(c, value) == IF HasColumn(header, c) THEN value ELSE NA

\* The value that the column "extra" has in every line of a file that has the column.
ExtraValue == <<"a">>

\* One chunk of pd.read_csv: lines first..last of the file as a frame with the columns
\* of the header.
ReadChunk(rows, first, last_line) ==
    Frame(header,
          [i \in 1..(last_line - first + 1) |->
              [idx |-> first + i - 1,
               order_id |-> Cell("order_id", rows[first + i - 1].order_id),
               product_name |-> Cell("product_name", rows[first + i - 1].product_name),
               category |-> Cell("category", rows[first + i - 1].category),
               quantity |-> Cell("quantity", rows[first + i - 1].quantity),
               unit_price |-> Cell("unit_price", rows[first + i - 1].unit_price),
               discount_percent |->
                   Cell("discount_percent", rows[first + i - 1].discount_percent),
               region |-> Cell("region", rows[first + i - 1].region),
               sale_date |-> Cell("sale_date", [str |-> rows[first + i - 1].sale_date]),
               customer_email |-> Cell("customer_email", rows[first + i - 1].customer_email),
               revenue |-> Cell("revenue", rows[first + i - 1].revenue),
               extra |-> Cell("extra", ExtraValue),
               anomaly_flag |-> NA,
               rejection_reason |-> NA]])

\* The union of the frames' columns, in order of first appearance.
RECURSIVE UnionColumns(_, _)
UnionColumns(cols, more) ==
    IF more = <<>> THEN cols ELSE UnionColumns(AddColumn(cols, Head(more)), Tail(more))

\* pd.concat(frames, ignore_index=True)
RECURSIVE Concat(_)
Concat(frames) ==
    IF frames = <<>> THEN EmptyDataFrame
    ELSE LET rest == Concat(Tail(frames))
         IN Frame(UnionColumns(Head(frames).cols, rest.cols), Head(frames).rows \o rest.rows)

RECURSIVE NonEmptyFrames(_)
NonEmptyFrames(frames) ==
    IF frames = <<>> THEN <<>>
    ELSE IF IsEmpty(Head(frames)) THEN NonEmptyFrames(Tail(frames))
    ELSE <<Head(frames)>> \o NonEmptyFrames(Tail(frames))

\* rejected_frames / rejected_df at every return of _clean_chunk.
RejectedDf(rejected_rows) == Concat(NonEmptyFrames(rejected_rows))

(***************************************************************************)
(* The caches of the resolvers and of the date parser                      *)
(*                                                                         *)
(* A cache is a sequence of <<key, value>>.  The caches of lru_cache keep  *)
(* the least recently used entry first; _date_cache keeps its entries in   *)
(* the order of insertion.  memo.dropped is the key an lru_cache evicted   *)
(* last and memo.outcome tells how the latest call was answered.           *)
(***************************************************************************)

\* maxsize of functools.lru_cache, 2048 in the source.
LruMaxSize == 2

\* The caches of a process that has called nothing yet.
EmptyMemo ==
    [category |-> <<>>, region |-> <<>>, date |-> <<>>,
     dropped |-> [category |-> None, region |-> None], outcome |-> "none"]

\* The place of a key in a cache, 0 for a key it does not hold.
CachePosition(cache, key) ==
    IF \E i \in 1..Len(cache) : cache[i][1] = key
    THEN CHOOSE i \in 1..Len(cache) : cache[i][1] = key
    ELSE 0

\* A cache without the entry at place p.
Without(cache, p) ==
    [i \in 1..(Len(cache) - 1) |-> IF i < p THEN cache[i] ELSE cache[i + 1]]

\* A variant of LruCall: a hit is answered with the value of the newest entry.
LruCallNewest(cache, dropped, key, computed) ==
    LET p == CachePosition(cache, key)
        full == Len(cache) >= LruMaxSize
    IN IF p # 0
       THEN [result |-> cache[Len(cache)][2],
             cache |-> Append(Without(cache, p), cache[p]),
             dropped |-> dropped, outcome |-> "hit"]
       ELSE [result |-> computed,
             cache |-> Append(IF full THEN Tail(cache) ELSE cache, <<key, computed>>),
             dropped |-> IF full THEN cache[1][1] ELSE dropped,
             outcome |-> IF key = dropped THEN "recomputed" ELSE "miss"]

\* The wrapper of functools.lru_cache: a hit returns the stored value and makes its entry
\* the most recently used; a miss calls the function, stores what it returned and, the
\* cache being full, evicts the least recently used entry.
LruCall(cache, dropped, key, computed) ==
    LET p == CachePosition(cache, key)
        full == Len(cache) >= LruMaxSize
    IN IF p # 0
       THEN [result |-> cache[p][2],
             cache |-> Append(Without(cache, p), cache[p]),
             dropped |-> dropped, outcome |-> "hit"]
       ELSE [result |-> computed,
             cache |-> Append(IF full THEN Tail(cache) ELSE cache, <<key, computed>>),
             dropped |-> IF full THEN cache[1][1] ELSE dropped,
             outcome |-> IF key = dropped THEN "recomputed" ELSE "miss"]

\* _parse_multiple_date_formats with its _date_cache: an empty string or None returns
\* before the cache is looked at; a hit returns the stored value; a miss stores the
\* Timestamp, or None after every format failed.  Nothing is ever evicted.
DateCacheCall(cache, date_string) ==
    LET p == CachePosition(cache, date_string)
    IN IF date_string = <<>> \/ date_string = None
       THEN [result |-> None, cache |-> cache, outcome |-> "uncached"]
       ELSE IF p # 0
       THEN [result |-> cache[p][2], cache |-> cache, outcome |-> "hit"]
       ELSE [result |-> _parse_multiple_date_formats(date_string),
             cache |-> Append(cache, <<date_string,
                                       _parse_multiple_date_formats(date_string)>>),
             outcome |-> "miss"]

CategoryCall(m, value) ==
    LET r == LruCall(m.category, m.dropped.category, value, _resolve_category(value))
    IN [result |-> r.result,
        memo |-> [m EXCEPT !.category = r.cache, !.dropped.category = r.dropped,
                           !.outcome = r.outcome]]

RegionCall(m, value) ==
    LET r == LruCall(m.region, m.dropped.region, value, _resolve_region(value))
    IN [result |-> r.result,
        memo |-> [m EXCEPT !.region = r.cache, !.dropped.region = r.dropped,
                           !.outcome = r.outcome]]

DateCall(m, date_string) ==
    LET r == DateCacheCall(m.date, date_string)
    IN [result |-> r.result, memo |-> [m EXCEPT !.date = r.cache, !.outcome = r.outcome]]

\* A call of one of the three memoized functions: what it returns and the caches after it.
MemoCall(m, fn, arg) ==
    IF fn = "category" THEN CategoryCall(m, arg)
    ELSE IF fn = "region" THEN RegionCall(m, arg)
    ELSE DateCall(m, arg)

RECURSIVE AfterCalls(_, _, _)
\* The caches after the calls i.. of a list of calls <<fn, arg>>.
AfterCalls(m, calls, i) ==
    IF i > Len(calls) THEN m
    ELSE AfterCalls(MemoCall(m, calls[i][1], calls[i][2]).memo, calls, i + 1)

(***************************************************************************)
(* _clean_chunk                                                            *)
(*                                                                         *)
(* A stage takes and returns st = [data, rejected_rows, calls]: the local  *)
(* frame `data`, the list `rejected_rows` and the calls <<fn, arg>> of the *)
(* memoized functions made so far.  A mask is the set of index labels at   *)
(* which the boolean Series is True.                                       *)
(***************************************************************************)

\* Faulty variant of _reject_rows: rejected_rows is overwritten, not appended to.
RejectRowsKeepLast(st, mask, reason, config) ==
    LET out == RowsWhere(st.data.rows, Index(st.data) \ mask)
        rejected == Frame(AddColumn(st.data.cols, "rejection_reason"),
                          [i \in 1..Len(out) |-> [out[i] EXCEPT !.rejection_reason = reason]])
    IN [data |-> Frame(st.data.cols, RowsWhere(st.data.rows, mask)),
        rejected_rows |-> IF config.save_rejected_rows THEN <<rejected>> ELSE st.rejected_rows,
        calls |-> st.calls]

\* _reject_rows(mask, reason): the rows outside the mask are recorded, as they are in
\* `data` at that moment, and `data` becomes the rows inside the mask.
_reject_rows(st, mask, reason, config) ==
    LET out == RowsWhere(st.data.rows, Index(st.data) \ mask)
        rejected == Frame(AddColumn(st.data.cols, "rejection_reason"),
                          [i \in 1..Len(out) |-> [out[i] EXCEPT !.rejection_reason = reason]])
    IN [data |-> Frame(st.data.cols, RowsWhere(st.data.rows, mask)),
        rejected_rows |-> IF config.save_rejected_rows
                          THEN Append(st.rejected_rows, rejected)
                          ELSE st.rejected_rows,
        calls |-> st.calls]

\* Step 1: order_id and product_name are normalised in `data`.
NormaliseIds(frame) ==
    Frame(frame.cols,
          [i \in 1..Len(frame.rows) |->
              [frame.rows[i] EXCEPT !.order_id = _normalise_string(@),
                                    !.product_name = _normalise_string(@)]])

valid_ids_mask(data) ==
    {data.rows[i].idx : i \in {k \in 1..Len(data.rows) :
        data.rows[k].order_id # <<>> /\ data.rows[k].product_name # <<>>}}

\* Faulty variant of duplicate_within_chunk_mask: keep="last".
DuplicatedKeepLastMask(data) ==
    {data.rows[i].idx : i \in {k \in 1..Len(data.rows) :
        \A j \in (k + 1)..Len(data.rows) : data.rows[j].order_id # data.rows[k].order_id}}

\* ~data.duplicated(subset="order_id", keep="first")
duplicate_within_chunk_mask(data) ==
    {data.rows[i].idx : i \in {k \in 1..Len(data.rows) :
        \A j \in 1..(k - 1) : data.rows[j].order_id # data.rows[k].order_id}}

\* The mask of the rows whose order_id is not in seen_order_ids.
duplicate_mask(data, seen) ==
    LET chunk_order_ids == {data.rows[i].order_id : i \in 1..Len(data.rows)}
        duplicate_order_ids == chunk_order_ids \cap seen
    IN IF seen # {} /\ duplicate_order_ids # {}
       THEN {data.rows[i].idx : i \in {k \in 1..Len(data.rows) :
                data.rows[k].order_id \notin duplicate_order_ids}}
       ELSE Index(data)

\* Step 1: the rows without an order_id or a product_name go.
RejectMissingIds(st, config) ==
    _reject_rows(st, valid_ids_mask(st.data), "missing_order_id_or_product", config)

StageIds(frame, config) ==
    RejectMissingIds([data |-> NormaliseIds(frame), rejected_rows |-> <<>>, calls |-> <<>>],
                     config)

RejectWithinChunk(st, config) ==
    _reject_rows(st, duplicate_within_chunk_mask(st.data), "duplicate_order_id", config)

RejectCrossChunk(st, seen, config) ==
    _reject_rows(st, duplicate_mask(st.data, seen), "duplicate_order_id", config)

\* Step 2: duplicates within the chunk, then the ones of earlier chunks.
StageDuplicates(st, seen, config) == RejectCrossChunk(RejectWithinChunk(st, config), seen, config)

valid_category_mask(data) ==
    {data.rows[i].idx : i \in {k \in 1..Len(data.rows) :
        _resolve_category(_normalise_string(data.rows[k].category)) # None}}

\* [_resolve_category(value) for value in raw_categories.tolist()]: one call per row.
CategoryCalls(st) ==
    [st EXCEPT !.calls = @ \o [i \in 1..Len(st.data.rows) |->
        <<"category", _normalise_string(st.data.rows[i].category)>>]]

StageCategory(st, config) ==
    _reject_rows(CategoryCalls(st), valid_category_mask(st.data), "unknown_category", config)

\* data.assign(category=resolved_series.loc[data.index])
AssignCategory(st) ==
    [st EXCEPT !.data.rows = [i \in 1..Len(st.data.rows) |->
        [st.data.rows[i] EXCEPT !.category = _resolve_category(_normalise_string(@))]]]

valid_region_mask(data) ==
    {data.rows[i].idx : i \in {k \in 1..Len(data.rows) :
        _resolve_region(_normalise_string(data.rows[k].region)) # None}}

\* [_resolve_region(value) for value in raw_regions.tolist()]: one call per row.
RegionCalls(st) ==
    [st EXCEPT !.calls = @ \o [i \in 1..Len(st.data.rows) |->
        <<"region", _normalise_string(st.data.rows[i].region)>>]]

StageRegion(st, config) ==
    _reject_rows(RegionCalls(st), valid_region_mask(st.data), "unknown_region", config)

\* Faulty variant of AssignRegion: the raw region is left in `data`.
AssignRegionRaw(st) == st

\* data.assign(region=region_series.loc[data.index])
AssignRegion(st) ==
    [st EXCEPT !.data.rows = [i \in 1..Len(st.data.rows) |->
        [st.data.rows[i] EXCEPT !.region = _resolve_region(_normalise_string(@))]]]

\* Step 4: the three numeric columns are cleaned in `data`.
CleanNumericColumns(st) ==
    [st EXCEPT !.data.rows = [i \in 1..Len(st.data.rows) |->
        [st.data.rows[i] EXCEPT !.quantity = CleanQuantity(@),
                                !.unit_price = CleanUnitPrice(@),
                                !.discount_percent = _clean_discount(@)]]]

\* (unit_price > 0) & (unit_price < 50000), in cents.
valid_price_mask(data) ==
    {data.rows[i].idx : i \in {k \in 1..Len(data.rows) :
        data.rows[k].unit_price.v > 0 /\ data.rows[k].unit_price.v < 5000000}}

RejectPrice(st, config) ==
    _reject_rows(st, valid_price_mask(st.data), "invalid_unit_price", config)

StagePrice(st, config) == RejectPrice(CleanNumericColumns(st), config)

\* A variant of heavy_discount_mask: the threshold itself counts as heavy.
HeavyDiscountFromThreshold(data) ==
    {data.rows[i].idx : i \in {k \in 1..Len(data.rows) : data.rows[k].discount_percent.v >= 80}}

\* discount_percent > 0.80, in hundredths.
heavy_discount_mask(data) ==
    {data.rows[i].idx : i \in {k \in 1..Len(data.rows) : data.rows[k].discount_percent.v > 80}}

\* data.loc[heavy_discount_mask, "anomaly_flag"] = "heavy_discount"
SetAnomalyFlag(st, mask) ==
    IF mask = {} THEN st
    ELSE [st EXCEPT !.data = Frame(AddColumn(st.data.cols, "anomaly_flag"),
             [i \in 1..Len(st.data.rows) |->
                 IF st.data.rows[i].idx \in mask
                 THEN [st.data.rows[i] EXCEPT !.anomaly_flag = "heavy_discount"]
                 ELSE st.data.rows[i]])]

\* The flagging of heavy discounts, done when heavy_discount_mask.any().
FlagHeavyDiscount(st) == SetAnomalyFlag(st, heavy_discount_mask(st.data))

\* quantity > 0
zero_qty_mask(data) ==
    {data.rows[i].idx : i \in {k \in 1..Len(data.rows) : data.rows[k].quantity.v > 0}}

\* A variant of StageQuantity: the configuration is ignored and no row is rejected.
StageQuantityNever(st, config) == st

\* Step 5: if config.drop_zero_quantity, the rows whose quantity is not positive go.
StageQuantity(st, config) ==
    IF config.drop_zero_quantity
    THEN _reject_rows(st, zero_qty_mask(st.data), "zero_quantity", config)
    ELSE st

\* sale_date_strings.apply(_parse_multiple_date_formats): one call per row.
DateCalls(st) ==
    [st EXCEPT !.calls = @ \o [i \in 1..Len(st.data.rows) |->
        <<"date", _normalise_string(st.data.rows[i].sale_date.str)>>]]

\* data["sale_date"] = sale_dates: a Timestamp, or NaT.
ParseSaleDates(st) ==
    [DateCalls(st) EXCEPT !.data.rows = [i \in 1..Len(st.data.rows) |->
        [st.data.rows[i] EXCEPT !.sale_date =
            LET parsed == _parse_multiple_date_formats(_normalise_string(@.str))
            IN IF parsed = None THEN [nat |-> TRUE] ELSE [ts |-> parsed]]]]

valid_date_mask(data) ==
    {data.rows[i].idx : i \in {k \in 1..Len(data.rows) : "ts" \in DOMAIN data.rows[k].sale_date}}

date_range_mask(data) ==
    {data.rows[i].idx : i \in {k \in 1..Len(data.rows) : InDateRange(data.rows[k].sale_date.ts)}}

\* data.assign(sale_date=unix_sale_dates)
AssignUnixSaleDates(st) ==
    [st EXCEPT !.data.rows = [i \in 1..Len(st.data.rows) |->
        [st.data.rows[i] EXCEPT !.sale_date = [unix |-> UnixSeconds(@.ts)]]]]

RejectInvalidDates(st, config) ==
    _reject_rows(st, valid_date_mask(st.data), "invalid_sale_date", config)

\* if not data.empty: the rows outside the window of 20 years back and 1 year ahead go.
RejectDatesOutOfRange(st, config) ==
    IF IsEmpty(st.data) THEN st
    ELSE _reject_rows(st, date_range_mask(st.data), "sale_date_out_of_range", config)

\* if not data.empty: sale_date becomes Unix seconds.
ConvertSaleDates(st) == IF IsEmpty(st.data) THEN st ELSE AssignUnixSaleDates(st)

\* Step 6: the two date rejections and the conversion to Unix seconds.
StageDates(st, config) ==
    ConvertSaleDates(RejectDatesOutOfRange(RejectInvalidDates(ParseSaleDates(st), config),
                                           config))

\* .round(2) of gross * keep / 100, all in cents: halves go to the even neighbour.
RoundedCents(gross, keep) ==
    (gross \div 100) * keep + RoundHalfEven((gross % 100) * keep
                                            + 100 * (((gross \div 100) * keep) % 2), 100)
                            - (((gross \div 100) * keep) % 2)

\* Faulty variant of Revenue: the revenue of the source row is trusted.
RevenueFromSource(row) == IF row.revenue.nan THEN Num(0) ELSE row.revenue

\* (unit_price * quantity * (1 - discount_percent)).round(2), in cents.
Revenue(row) ==
    Num(RoundedCents(row.unit_price.v * (row.quantity.v \div 10), 100 - row.discount_percent.v))

\* Step 7: customer_email and revenue are set in `data`.
AssignEmailAndRevenue(st) ==
    [st EXCEPT !.data = Frame(AddColumn(st.data.cols, "revenue"),
        [i \in 1..Len(st.data.rows) |->
            [st.data.rows[i] EXCEPT !.customer_email = _clean_customer_email(@),
                                    !.revenue = Revenue(st.data.rows[i])]])]

\* (revenue >= 0) & (revenue < 1000000), in cents.
valid_revenue_mask(data) ==
    {data.rows[i].idx : i \in {k \in 1..Len(data.rows) :
        data.rows[k].revenue.v >= 0 /\ data.rows[k].revenue.v < 100000000}}

RejectRevenue(st, config) ==
    _reject_rows(st, valid_revenue_mask(st.data), "invalid_calculated_revenue", config)

StageRevenue(st, config) == RejectRevenue(AssignEmailAndRevenue(st), config)

\* Faulty variant of SeenUpdate: the tracker is never updated.
SeenUpdateNone(seen, data) == seen

\* A variant of SeenUpdate: only the order_id of the first surviving row is recorded.
SeenUpdateFirst(seen, data) ==
    IF data.rows = <<>> THEN seen ELSE seen \cup {data.rows[1].order_id}

\* seen_order_ids.update(data["order_id"].tolist())
SeenUpdate(seen, data) == seen \cup {data.rows[i].order_id : i \in 1..Len(data.rows)}

\* The column list of the cleaned frame.
CleanColumns(cols) ==
    LET columns == <<"order_id", "product_name", "category", "quantity", "unit_price",
                     "discount_percent", "region", "sale_date", "customer_email", "revenue">>
    IN IF HasColumn(cols, "anomaly_flag") THEN Append(columns, "anomaly_flag") ELSE columns

\* An early return: `data` is empty and seen_order_ids is left alone.
EarlyReturn(st, seen) ==
    [cleaned |-> st.data, rejected |-> RejectedDf(st.rejected_rows), seen |-> seen,
     raised |-> FALSE, calls |-> st.calls]

\* The final return: the tracker is updated and the columns are reordered.
FinalReturn(st, seen) ==
    [cleaned |-> Frame(CleanColumns(st.data.cols), st.data.rows),
     rejected |-> RejectedDf(st.rejected_rows),
     seen |-> SeenUpdate(seen, st.data),
     raised |-> FALSE, calls |-> st.calls]

\* data.get(column) is None for a column that `data` lacks, and the cleaner called with
\* None raises AttributeError: nothing is returned and seen_order_ids is left alone.
AttributeError(seen) ==
    [cleaned |-> EmptyDataFrame, rejected |-> EmptyDataFrame, seen |-> seen, raised |-> TRUE,
     calls |-> <<>>]

\* The same exception after some calls of the memoized functions.
AttributeErrorAfter(st, seen) == [AttributeError(seen) EXCEPT !.calls = st.calls]

\* `data` lacks one of the columns.
Lacks(data, columns) == \E i \in 1..Len(columns) : ~HasColumn(data.cols, columns[i])

\* From step 7 on, st being `data` and `rejected_rows` after step 6.
AfterDates(st, seen, config) ==
    IF IsEmpty(st.data) THEN EarlyReturn(st, seen)
    ELSE IF Lacks(st.data, <<"customer_email">>) THEN AttributeErrorAfter(st, seen)
    ELSE FinalReturn(StageRevenue(st, config), seen)

\* From step 4 on, st being the state after the region rejection.
AfterRegion(st, seen, config) ==
    IF IsEmpty(st.data) THEN EarlyReturn(st, seen)
    ELSE IF Lacks(st.data, <<"quantity", "unit_price", "discount_percent", "sale_date">>)
    THEN AttributeErrorAfter(st, seen)
    ELSE AfterDates(StageDates(StageQuantity(FlagHeavyDiscount(
                        StagePrice(AssignRegion(st), config)), config), config), seen, config)

\* From the region resolution on, st being the state after the category rejection.
AfterCategory(st, seen, config) ==
    IF IsEmpty(st.data) THEN EarlyReturn(st, seen)
    ELSE IF Lacks(st.data, <<"region">>) THEN AttributeErrorAfter(st, seen)
    ELSE AfterRegion(StageRegion(AssignCategory(st), config), seen, config)

\* Faulty variant of AfterIds: the category stage runs before the duplicate stage.
AfterIdsCategoryFirst(st, seen, config) ==
    IF IsEmpty(st.data) THEN EarlyReturn(st, seen)
    ELSE IF Lacks(st.data, <<"category">>) THEN AttributeError(seen)
    ELSE AfterCategory(StageDuplicates(StageCategory(st, config), seen, config), seen, config)

\* From step 2 on, st being the state after step 1.
AfterIds(st, seen, config) ==
    IF IsEmpty(st.data) THEN EarlyReturn(st, seen)
    ELSE IF Lacks(st.data, <<"category">>) THEN AttributeError(seen)
    ELSE AfterCategory(StageCategory(StageDuplicates(st, seen, config), config), seen, config)

\* _clean_chunk(frame, seen_order_ids, config): (cleaned_data, rejected_df) and the
\* value of seen_order_ids when it returns.
_clean_chunk(frame, seen, config) ==
    IF Lacks(frame, <<"order_id", "product_name">>) THEN AttributeError(seen)
    ELSE AfterIds(StageIds(frame, config), seen, config)

(***************************************************************************)
(* clean_csv_to_parquet                                                    *)
(***************************************************************************)

\* The columns of the empty parquet file written when no writer was opened.
EmptyFileColumns ==
    <<"order_id", "product_name", "category", "quantity", "unit_price",
      "discount_percent", "region", "sale_date", "customer_email", "revenue">>

\* writer.write_table raises: the table's schema is not the writer's.
WriteRaises(cleaned) == ~IsEmpty(cleaned) /\ writer # None /\ writer # cleaned.cols

\* The writes of one iteration, given what _clean_chunk returned for lines first..last_line;
\* an exception of _clean_chunk or of the writer ends the run.
WriteChunk(result, first, last_line) ==
    /\ pos' = last_line
    /\ seen_order_ids' = result.seen
    /\ memo' = AfterCalls(memo, result.calls, 1)
    /\ IF result.raised
       THEN /\ pc' = "raised_in_clean_chunk"
            /\ UNCHANGED <<last, writer, clean_sink, rejected_csv_written, rejected_sink>>
       ELSE /\ last' = [first |-> first, last_line |-> last_line,
                        cleaned |-> result.cleaned, rejected |-> result.rejected]
            /\ IF WriteRaises(result.cleaned)
               THEN /\ pc' = "raised"
                    /\ UNCHANGED <<writer, clean_sink, rejected_csv_written, rejected_sink>>
               ELSE /\ pc' = pc
                    /\ writer' = IF ~IsEmpty(result.cleaned) /\ writer = None
                                 THEN result.cleaned.cols ELSE writer
                    /\ clean_sink' = IF ~IsEmpty(result.cleaned)
                                     THEN Append(clean_sink, result.cleaned) ELSE clean_sink
                    /\ rejected_csv_written' =
                           (rejected_csv_written
                            \/ (~IsEmpty(result.rejected) /\ cfg.save_rejected_rows))
                    /\ rejected_sink' =
                           IF ~IsEmpty(result.rejected) /\ cfg.save_rejected_rows
                           THEN Append(rejected_sink, result.rejected) ELSE rejected_sink

\* The chunk of lines first..last_line is read, cleaned and written.
CleanAndWrite(first, last_line) ==
    WriteChunk(_clean_chunk(ReadChunk(file, first, last_line), seen_order_ids, cfg),
               first, last_line)

\* One iteration of the loop over csv_reader: the chunk is read and cleaned, the cleaned
\* rows go to the parquet writer (which raises ValueError on a table whose schema is
\* not the one it was opened with) and the rejected rows to the rejected CSV.
ProcessChunk ==
    /\ pc = "loop"
    /\ pos < Len(file)
    /\ CleanAndWrite(pos + 1, Min2(pos + cfg.chunk_size, Len(file)))
    /\ UNCHANGED <<vocabulary, cfg, header, file, call>>

\* A variant of Finish: no file is written when no writer was opened.
FinishWithoutEmptyFile ==
    /\ pc = "loop"
    /\ pos = Len(file)
    /\ pc' = "done"
    /\ UNCHANGED <<vocabulary, cfg, header, file, pos, seen_order_ids, writer, clean_sink,
                   rejected_csv_written, rejected_sink, last, call, memo>>

\* The reader is exhausted: the writer is closed, or the empty parquet file is written,
\* and the paths are returned.
Finish ==
    /\ pc = "loop"
    /\ pos = Len(file)
    /\ pc' = "done"
    /\ clean_sink' = IF writer = None THEN <<Frame(EmptyFileColumns, <<>>)>> ELSE clean_sink
    /\ UNCHANGED <<vocabulary, cfg, header, file, pos, seen_order_ids, writer,
                   rejected_csv_written, rejected_sink, last, call, memo>>

\* A direct call of _resolve_category.
CallResolveCategory ==
    /\ pc = "resolver"
    /\ call.fn = "category"
    /\ ~call.done
    /\ call' = [call EXCEPT !.result = MemoCall(memo, "category", call.arg).result, !.done = TRUE]
    /\ memo' = MemoCall(memo, "category", call.arg).memo
    /\ UNCHANGED <<vocabulary, run_state, pc>>

\* A direct call of _parse_multiple_date_formats.
CallParseDate ==
    /\ pc = "resolver"
    /\ call.fn = "date"
    /\ ~call.done
    /\ call' = [call EXCEPT !.result = MemoCall(memo, "date", call.arg).result, !.done = TRUE]
    /\ memo' = MemoCall(memo, "date", call.arg).memo
    /\ UNCHANGED <<vocabulary, run_state, pc>>

\* A direct call of _resolve_region.
CallResolveRegion ==
    /\ pc = "resolver"
    /\ call.fn = "region"
    /\ ~call.done
    /\ call' = [call EXCEPT !.result = MemoCall(memo, "region", call.arg).result, !.done = TRUE]
    /\ memo' = MemoCall(memo, "region", call.arg).memo
    /\ UNCHANGED <<vocabulary, run_state, pc>>

(***************************************************************************)
(* Inputs                                                                  *)
(***************************************************************************)

MaxChunkSize == 3

MaxSimpleRows == 3

MaxContextRows == 1

MaxColumnRows == 1

MaxCategoryLen == 3

MaxCategories == 2

MaxRegionLen == 2

MaxAliases == 2

MaxRegions == 2

MaxRawValues == 2

MaxWordLen == 4

\* data/lookups/*.json of the pipeline runs.
CommonCategoriesJson == << <<"A", "b">>, <<"B", "a", "b">>, <<"A", "b", " ">>, <<>> >>

CommonRegionsJson == << <<"B", "a">>, <<"A", "b">> >>

RegionMapJson ==
    << << <<"B", "a">>, <<"B", "a">> >>,
       << <<"A", "b">>, <<"A", "b">> >>,
       << <<"b", "b">>, <<"B", "a">> >>,
       << <<"a">>, UNKNOWN >> >>

\* A row every stage accepts.
BaseRow ==
    [order_id |-> <<"A">>,
     product_name |-> <<"a">>,
     category |-> <<" ", "a", "b">>,
     quantity |-> Num(25),
     unit_price |-> Num(1999),
     discount_percent |-> Num(10),
     region |-> <<"b", "b">>,
     sale_date |-> <<"2", "0", "2", "4", "-", "0", "1", "-", "1", "5">>,
     customer_email |-> <<"a", "@", "b", ".", "a">>,
     revenue |-> Num(999)]

\* The values a field takes in the rows of the runs.
AllRows ==
    [order_id : {<<"A">>, <<>>},
     product_name : {<<"a">>, <<" ">>},
     category : {<<" ", "a", "b">>, <<"b", "b">>, <<"b", "b", "b", "b", "b", "b">>},
     quantity : {Num(25), NaN, Num(300)},
     unit_price : {Num(1999), NaN, Num(4000000)},
     discount_percent : {Num(10), Num(80), Num(85), Num(150)},
     region : {<<"b", "b">>, <<"B", "A">>, <<"a">>},
     sale_date : {<<"2", "0", "2", "4", "-", "0", "1", "-", "1", "5">>,
                  <<"N", "U", "L", "L">>,
                  <<"0", "1", "/", "1", "5", "/", "2", "0", "0", "1">>},
     customer_email : {<<"a", "@", "b", ".", "a">>, <<"A", "@", "b">>},
     revenue : {Num(999)}]

Deviations(row) == Cardinality({f \in DOMAIN row : row[f] # BaseRow[f]})

\* The rows that differ from BaseRow in at most two fields.
RichRows == {row \in AllRows : Deviations(row) <= 2}

\* The rows that surround them: accepted rows of two orders, and a row of the first order
\* with an unknown category.
SimpleRows ==
    {BaseRow,
     [BaseRow EXCEPT !.order_id = <<" ", "A", " ">>, !.quantity = Num(10)],
     [BaseRow EXCEPT !.order_id = <<"B">>, !.customer_email = <<"A", "@", "b">>],
     [BaseRow EXCEPT !.category = <<>>]}

SeqsUpTo(S, n) == UNION {[1..k -> S] : k \in 0..n}

\* The rows that stand before and after a row of RichRows: one with the order_id of that
\* row, one with another, and one that the category stage rejects.
ContextRows ==
    {BaseRow,
     [BaseRow EXCEPT !.order_id = <<"B">>, !.customer_email = <<"A", "@", "b">>],
     [BaseRow EXCEPT !.category = <<>>]}

Files ==
    SeqsUpTo(SimpleRows, MaxSimpleRows)
    \cup {ctx[1] \o <<row>> \o ctx[2] :
             ctx \in {c \in SeqsUpTo(ContextRows, MaxContextRows)
                              \X SeqsUpTo(ContextRows, MaxContextRows) :
                          Len(c[1]) + Len(c[2]) <= MaxContextRows},
             row \in RichRows}

Configs ==
    [chunk_size : 1..MaxChunkSize, drop_zero_quantity : BOOLEAN, save_rejected_rows : BOOLEAN]

NoCall == [fn |-> "none", arg |-> <<>>, result |-> None, done |-> TRUE]

\* The module is imported with the lookups above and clean_csv_to_parquet, called with
\* some configuration, has reached its loop.
InitRun ==
    /\ canonical_categories = LoadCanonicalCategories(CommonCategoriesJson)
    /\ canonical_lookup = LoadCanonicalLookup(LoadCanonicalCategories(CommonCategoriesJson))
    /\ canonical_region_set = LoadCanonicalRegionSet(CommonRegionsJson)
    /\ region_map = LoadRegionMap(RegionMapJson, Len(RegionMapJson))
    /\ region_map_casefold =
           LoadRegionMapCasefold(LoadRegionMap(RegionMapJson, Len(RegionMapJson)))
    /\ cfg \in Configs
    /\ pos = 0
    /\ seen_order_ids = {}
    /\ writer = None
    /\ clean_sink = <<>>
    /\ rejected_csv_written = FALSE
    /\ rejected_sink = <<>>
    /\ last = [first |-> 1, last_line |-> 0, cleaned |-> EmptyDataFrame,
               rejected |-> EmptyDataFrame]
    /\ pc = "loop"
    /\ call = NoCall
    /\ memo = EmptyMemo

\* The runs over the files that have the header of the generator.
Init ==
    /\ InitRun
    /\ header = InputColumns
    /\ file \in Files

Next == ProcessChunk \/ Finish

Spec == Init /\ [][Next]_vars

(***************************************************************************)
(* Direct calls of the resolvers, over the vocabularies a process may load *)
(***************************************************************************)

\* The entries of common_categories.json.
CategoryNames == { <<"A", "b">>, <<"A", "B">>, <<"B", "a", "b">>, <<"b", " ">>, <<>> }

\* The keys and the targets of region_map.json; common_regions.json is CommonRegionsJson.
AliasKeys == { <<"a", "b">>, <<"A", "B">>, <<" ", "A", "b">> }

AliasTargets == { <<"A", "b">>, <<"B", "a">>, UNKNOWN, <<"b", "b">> }

\* JSON objects: no key twice.
RegionMapJsons ==
    {m \in SeqsUpTo(AliasKeys \X AliasTargets, MaxAliases) :
        \A i, j \in 1..Len(m) : i # j => m[i][1] # m[j][1]}

\* The run variables of a process that only calls a resolver.
NoRun ==
    /\ cfg = [chunk_size |-> 1, drop_zero_quantity |-> TRUE, save_rejected_rows |-> TRUE]
    /\ header = InputColumns
    /\ file = <<>>
    /\ pos = 0
    /\ seen_order_ids = {}
    /\ writer = None
    /\ clean_sink = <<>>
    /\ rejected_csv_written = FALSE
    /\ rejected_sink = <<>>
    /\ last = [first |-> 1, last_line |-> 0, cleaned |-> EmptyDataFrame,
               rejected |-> EmptyDataFrame]
    /\ memo = EmptyMemo

\* The module is imported with some common_categories.json and _resolve_category is
\* about to be called.
InitCategoryCall ==
    /\ \E common_categories \in SeqsUpTo(CategoryNames, MaxCategories) :
          /\ canonical_categories = LoadCanonicalCategories(common_categories)
          /\ canonical_lookup = LoadCanonicalLookup(LoadCanonicalCategories(common_categories))
    /\ canonical_region_set = LoadCanonicalRegionSet(CommonRegionsJson)
    /\ region_map = LoadRegionMap(RegionMapJson, Len(RegionMapJson))
    /\ region_map_casefold =
           LoadRegionMapCasefold(LoadRegionMap(RegionMapJson, Len(RegionMapJson)))
    /\ \E arg \in SeqsUpTo(Alphabet, MaxCategoryLen) :
          call = [fn |-> "category", arg |-> arg, result |-> None, done |-> FALSE]

\* The module is imported with some region_map.json, which the loader accepted, and
\* _resolve_region is about to be called.
InitRegionCall ==
    /\ canonical_categories = LoadCanonicalCategories(CommonCategoriesJson)
    /\ canonical_lookup = LoadCanonicalLookup(LoadCanonicalCategories(CommonCategoriesJson))
    /\ canonical_region_set = LoadCanonicalRegionSet(CommonRegionsJson)
    /\ \E region_map_raw \in RegionMapJsons :
          /\ ~RegionMapRaises(region_map_raw, LoadCanonicalRegionSet(CommonRegionsJson))
          /\ region_map = LoadRegionMap(region_map_raw, Len(region_map_raw))
          /\ region_map_casefold =
                 LoadRegionMapCasefold(LoadRegionMap(region_map_raw, Len(region_map_raw)))
    /\ \E arg \in SeqsUpTo(Alphabet, MaxRegionLen) :
          call = [fn |-> "region", arg |-> arg, result |-> None, done |-> FALSE]

InitResolve ==
    /\ pc = "resolver"
    /\ NoRun
    /\ InitCategoryCall \/ InitRegionCall

NextResolve == CallResolveCategory \/ CallResolveRegion

SpecResolve == InitResolve /\ [][NextResolve]_vars

(***************************************************************************)
(* Direct calls of the date parser                                         *)
(***************************************************************************)

\* The pieces of the date strings: years, months and days with and without a leading
\* zero, and numbers that are none of them.
DateTokens ==
    { <<"2", "0", "2", "4">>, <<"1", "5", "0", "0">>, <<"2", "4">>, <<"0", "1">>, <<"1">>,
      <<"1", "3">>, <<"0", "2">>, <<"1", "5">>, <<"3", "0">>, <<"3", "1">>, <<"0", "0">> }

\* Three pieces with a separator after the first and after the second; the empty string,
\* None and a placeholder.
DateStrings ==
    {t[1] \o <<p[1]>> \o t[2] \o <<p[2]>> \o t[3] :
        t \in DateTokens \X DateTokens \X DateTokens, p \in {"-", "/"} \X {"-", "/"}}
    \cup {<<>>, None, <<"N", "U", "L", "L">>}

\* The module is imported and _parse_multiple_date_formats is about to be called.
InitDates ==
    /\ pc = "resolver"
    /\ NoRun
    /\ canonical_categories = LoadCanonicalCategories(CommonCategoriesJson)
    /\ canonical_lookup = LoadCanonicalLookup(LoadCanonicalCategories(CommonCategoriesJson))
    /\ canonical_region_set = LoadCanonicalRegionSet(CommonRegionsJson)
    /\ region_map = LoadRegionMap(RegionMapJson, Len(RegionMapJson))
    /\ region_map_casefold =
           LoadRegionMapCasefold(LoadRegionMap(RegionMapJson, Len(RegionMapJson)))
    /\ \E arg \in DateStrings :
          call = [fn |-> "date", arg |-> arg, result |-> None, done |-> FALSE]

SpecDates == InitDates /\ [][CallParseDate]_vars

(***************************************************************************)
(* Runs over files with other headers                                      *)
(***************************************************************************)

\* The header without a column.
WithoutColumn(cols, c) == LET Other(x) == x # c IN SelectSeq(cols, Other)

\* The header of the generator, that header with one more column, at the end or at the
\* start, and that header without one of its columns.
Headers ==
    {InputColumns, Append(InputColumns, "extra"), <<"extra">> \o InputColumns}
    \cup {WithoutColumn(InputColumns, InputColumns[i]) : i \in 1..Len(InputColumns)}

ColumnFiles == {f \in Files : Len(f) <= MaxColumnRows}

InitColumns ==
    /\ InitRun
    /\ header \in Headers
    /\ file \in ColumnFiles

SpecColumns == InitColumns /\ [][Next]_vars

(***************************************************************************)
(* The import of the module, over the artifacts it may find                *)
(***************************************************************************)

\* What json.load returns: a list, a dict (a sequence of <<key, value>>), or a document
\* of another type.
JsonList(items) == [type |-> "list", items |-> items]

JsonObject(items) == [type |-> "dict", items |-> items]

JsonString == [type |-> "str", items |-> <<>>]

\* One of the three isinstance checks, or the loop over _REGION_MAP_RAW, raises ValueError.
ImportRaises(artifacts) ==
    \/ artifacts.common_categories.type # "list"
    \/ artifacts.common_regions.type # "list"
    \/ artifacts.region_map.type # "dict"
    \/ RegionMapRaises(artifacts.region_map.items,
                       LoadCanonicalRegionSet(artifacts.common_regions.items))

\* The globals that the module level assigns from the artifacts.
AssignVocabulary(artifacts) ==
    /\ canonical_categories' = LoadCanonicalCategories(artifacts.common_categories.items)
    /\ canonical_lookup' =
           LoadCanonicalLookup(LoadCanonicalCategories(artifacts.common_categories.items))
    /\ canonical_region_set' = LoadCanonicalRegionSet(artifacts.common_regions.items)
    /\ region_map' = LoadRegionMap(artifacts.region_map.items, Len(artifacts.region_map.items))
    /\ region_map_casefold' =
           LoadRegionMapCasefold(LoadRegionMap(artifacts.region_map.items,
                                               Len(artifacts.region_map.items)))

\* The module is imported: its top-level code loads the three artifacts, and either
\* raises ValueError or leaves the vocabulary in the globals, after which
\* clean_csv_to_parquet is called.
ImportModule ==
    /\ pc = "import"
    /\ IF ImportRaises(call.arg)
       THEN pc' = "config_error" /\ UNCHANGED vocabulary
       ELSE pc' = "loop" /\ AssignVocabulary(call.arg)
    /\ UNCHANGED <<run_state, call, memo>>

\* The entries of common_regions.json, and the keys and targets of region_map.json.
RegionNames == { <<"B", "a">>, <<"A", "b">>, <<" ", "A", "b">> }

LoaderKeys == AliasKeys \cup { <<" ">>, <<>> }

LoaderTargets == AliasTargets \cup { <<"A", "b", " ">> }

CommonCategoriesArtifacts == {JsonList(CommonCategoriesJson), JsonObject(<<>>)}

CommonRegionsArtifacts ==
    {JsonList(items) : items \in SeqsUpTo(RegionNames, MaxRegions)} \cup {JsonString}

RegionMapArtifacts ==
    {JsonObject(m) : m \in {n \in SeqsUpTo(LoaderKeys \X LoaderTargets, MaxAliases) :
                                \A i, j \in 1..Len(n) : i # j => n[i][1] # n[j][1]}}
    \cup {JsonList(<<>>)}

\* The process starts: nothing is loaded, and the file that clean_csv_to_parquet will be
\* given has no row or one row.
InitLoad ==
    /\ pc = "import"
    /\ canonical_categories = <<>>
    /\ canonical_lookup = <<>>
    /\ canonical_region_set = {}
    /\ region_map = <<>>
    /\ region_map_casefold = <<>>
    /\ call \in [fn : {"import"},
                  arg : [common_categories : CommonCategoriesArtifacts,
                         common_regions : CommonRegionsArtifacts,
                         region_map : RegionMapArtifacts],
                  result : {None},
                  done : {FALSE}]
    /\ cfg = [chunk_size |-> 1, drop_zero_quantity |-> TRUE, save_rejected_rows |-> TRUE]
    /\ header = InputColumns
    /\ file \in {<<>>, <<BaseRow>>}
    /\ pos = 0
    /\ seen_order_ids = {}
    /\ writer = None
    /\ clean_sink = <<>>
    /\ rejected_csv_written = FALSE
    /\ rejected_sink = <<>>
    /\ last = [first |-> 1, last_line |-> 0, cleaned |-> EmptyDataFrame,
               rejected |-> EmptyDataFrame]
    /\ memo = EmptyMemo

NextLoad == ImportModule \/ ProcessChunk \/ Finish

SpecLoad == InitLoad /\ [][NextLoad]_vars

(***************************************************************************)
(* Runs over rows with other values of the text fields                     *)
(***************************************************************************)

\* The values of the text fields of these rows: placeholder tokens for order_id and
\* product_name, a region that is one edit from the canonical names and no key of the
\* alias map, and emails that have to be trimmed and lower-cased or are missing.
AllTextRows ==
    [order_id : {<<"A">>, <<>>, <<" ", "N", "U", "L", "L">>},
     product_name : {<<"a">>, <<" ">>, <<"n", "a", "n">>},
     category : {<<" ", "a", "b">>, <<"b", "b", "b", "b", "b", "b">>},
     quantity : {Num(25), NaN},
     unit_price : {Num(1999)},
     discount_percent : {Num(10)},
     region : {<<"b", "b">>, <<"B", "A">>, <<"a">>, <<"b">>},
     sale_date : {<<"2", "0", "2", "4", "-", "0", "1", "-", "1", "5">>,
                  <<"N", "U", "L", "L">>},
     customer_email : {<<"a", "@", "b", ".", "a">>, <<"A", "@", "b">>,
                       <<" ", "A", "@", "b", ".", "a", " ">>, <<>>},
     revenue : {Num(999)}]

\* The rows of them that differ from BaseRow in at most two fields.
TextRows == {row \in AllTextRows : Deviations(row) <= 2}

\* A file of one or two rows: a row of TextRows, alone, after or before a row of
\* ContextRows.
TextFiles ==
    {<<row>> : row \in TextRows}
    \cup {<<c, row>> : c \in ContextRows, row \in TextRows}
    \cup {<<row, c>> : c \in ContextRows, row \in TextRows}

InitText ==
    /\ InitRun
    /\ header = InputColumns
    /\ file \in TextFiles

SpecText == InitText /\ [][Next]_vars

(***************************************************************************)
(* scripts/build_region_map.py                                             *)
(***************************************************************************)

\* levenshtein of the script: statement by statement the function of the cleaner.
levenshtein(left, right, max_distance) == _levenshtein(left, right, max_distance)

\* load_existing_mapping on the parsed JSON object, entries 1..n done.
RECURSIVE LoadExisting(_, _)
LoadExisting(raw, n) ==
    IF n = 0 THEN <<>>
    ELSE IF Strip(raw[n][1]) = <<>> THEN LoadExisting(raw, n - 1)
    ELSE DictSet(LoadExisting(raw, n - 1), Strip(raw[n][1]), Strip(raw[n][2]))

load_existing_mapping(raw) == LoadExisting(raw, Len(raw))

\* A variant of GuessStep: a candidate at any distance is taken.
GuessStepAnyDistance(candidate, distance, best_match) ==
    IF best_match = None \/ distance < best_match[2] THEN <<candidate, distance>>
    ELSE best_match

\* One iteration of the loop of guess_region: best_match after the candidate.
GuessStep(candidate, distance, best_match) ==
    IF distance <= 2 /\ (best_match = None \/ distance < best_match[2])
    THEN <<candidate, distance>>
    ELSE best_match

\* The loop of guess_region over the candidates from the i-th on; it breaks at
\* distance 0.
RECURSIVE GuessLoop(_, _, _, _)
GuessLoop(lowered, canonicals, i, best_match) ==
    IF i > Len(canonicals) THEN best_match
    ELSE IF best_match # None /\ best_match[2] = 0 THEN best_match
    ELSE GuessLoop(lowered, canonicals, i + 1,
                   GuessStep(canonicals[i],
                             levenshtein(lowered, Casefold(canonicals[i]), 2),
                             best_match))

\* What guess_region returns for the best_match of its loop.
GuessResult(best_match) == IF best_match # None THEN best_match[1] ELSE None

guess_region(raw_value, canonicals) ==
    IF raw_value = <<>> THEN None
    ELSE IF Casefold(raw_value) \in DOMAIN LoadCanonicalLookup(canonicals)
    THEN LoadCanonicalLookup(canonicals)[Casefold(raw_value)]
    ELSE GuessResult(GuessLoop(Casefold(raw_value), canonicals, 1, None))

\* mapping[cleaned] = suggestion, or unknown_label when there is none.
SetSuggestion(mapping, cleaned, suggestion, unknown_label) ==
    DictSet(mapping, cleaned, IF suggestion = None THEN unknown_label ELSE suggestion)

\* The loop of build_mapping over counter.most_common(), values 1..n done.
RECURSIVE AddRawValues(_, _, _, _, _)
AddRawValues(mapping, most_common, n, canonicals, unknown_label) ==
    IF n = 0 THEN mapping
    ELSE LET done == AddRawValues(mapping, most_common, n - 1, canonicals, unknown_label)
             cleaned == Strip(most_common[n])
         IN IF cleaned = <<>> \/ DictHas(done, cleaned) THEN done
            ELSE SetSuggestion(done, cleaned, guess_region(cleaned, canonicals),
                               unknown_label)

\* mapping.setdefault(canonical, canonical) for the canonical names in the order in which
\* the set is iterated.
RECURSIVE SetDefaults(_, _, _)
SetDefaults(mapping, canonical_order, n) ==
    IF n = 0 THEN mapping
    ELSE LET done == SetDefaults(mapping, canonical_order, n - 1)
         IN IF DictHas(done, canonical_order[n]) THEN done
            ELSE Append(done, <<canonical_order[n], canonical_order[n]>>)

\* sorted(items, key=casefold of the key): a stable insertion of an item.
RECURSIVE InsertItem(_, _)
InsertItem(sorted, item) ==
    IF sorted = <<>> THEN <<item>>
    ELSE IF StrLess(Casefold(item[1]), Casefold(Head(sorted)[1]))
    THEN <<item>> \o sorted
    ELSE <<Head(sorted)>> \o InsertItem(Tail(sorted), item)

RECURSIVE SortedItems(_, _)
SortedItems(items, n) ==
    IF n = 0 THEN <<>> ELSE InsertItem(SortedItems(items, n - 1), items[n])

\* The orders in which a set of strings can be iterated.
Orders(S) == {order \in [1..Cardinality(S) -> S] :
                 \A i, j \in 1..Cardinality(S) : i # j => order[i] # order[j]}

\* build_mapping, given the order in which set(canonicals) is iterated.
BuildMappingWith(most_common, canonicals, existing, unknown_label, canonical_order) ==
    LET mapping == SetDefaults(AddRawValues(existing, most_common, Len(most_common),
                                            canonicals, unknown_label),
                               canonical_order, Len(canonical_order))
    IN SortedItems(mapping, Len(mapping))

\* A direct call of build_mapping, as main calls it: on the values of a counter in the
\* order of most_common(), a canonical list and the mapping that
\* load_existing_mapping returned.
CallBuildMapping ==
    /\ pc = "resolver"
    /\ call.fn = "build_mapping"
    /\ ~call.done
    /\ \E canonical_order \in Orders({call.arg.canonicals[i] :
                                         i \in 1..Len(call.arg.canonicals)}) :
          call' = [call EXCEPT !.result = BuildMappingWith(call.arg.most_common,
                                                           call.arg.canonicals,
                                                           call.arg.existing,
                                                           call.arg.unknown_label,
                                                           canonical_order),
                               !.done = TRUE]
    /\ UNCHANGED <<vocabulary, run_state, pc, memo>>

\* The region values of the scanned files, the keys and the values of the region_map.json
\* that is there, and the labels.
RawRegionValues ==
    { <<"B", "a">>, <<" ", "b", "a">>, <<"A", "B">>, <<"b", "a", "a", "b">>,
      <<"b", "b", "b", "b">>, <<>> }

ExistingKeys == { <<"b", "b", "b", "b">>, <<" ", "B", "a">>, <<"a">> }

ExistingValues == { <<"B", "a">>, UNKNOWN, <<"b", "b">> }

UnknownLabels == { UNKNOWN, <<"N", "A">> }

\* No file, an empty object, or an object with one entry.
ExistingJsons == {<<>>} \cup {<< <<k, v>> >> : k \in ExistingKeys, v \in ExistingValues}

\* The script has loaded its inputs and build_mapping is about to be called.
InitBuild ==
    /\ pc = "resolver"
    /\ NoRun
    /\ canonical_categories = LoadCanonicalCategories(CommonCategoriesJson)
    /\ canonical_lookup = LoadCanonicalLookup(LoadCanonicalCategories(CommonCategoriesJson))
    /\ canonical_region_set = LoadCanonicalRegionSet(CommonRegionsJson)
    /\ region_map = LoadRegionMap(RegionMapJson, Len(RegionMapJson))
    /\ region_map_casefold =
           LoadRegionMapCasefold(LoadRegionMap(RegionMapJson, Len(RegionMapJson)))
    /\ \E most_common \in {c \in SeqsUpTo(RawRegionValues, MaxRawValues) :
                                \A i, j \in 1..Len(c) : i # j => c[i] # c[j]},
          canonicals \in SeqsUpTo({<<"B", "a">>, <<"A", "b">>}, MaxRegions),
          existing_raw \in ExistingJsons,
          unknown_label \in UnknownLabels :
          call = [fn |-> "build_mapping",
                  arg |-> [most_common |-> most_common,
                           canonicals |-> canonicals,
                           existing |-> load_existing_mapping(existing_raw),
                           unknown_label |-> unknown_label],
                  result |-> None,
                  done |-> FALSE]

SpecBuild == InitBuild /\ [][CallBuildMapping]_vars

(***************************************************************************)
(* Direct calls of the edit distance                                       *)
(***************************************************************************)

\* A direct call of _levenshtein of the cleaner with max_distance = _FUZZY_THRESHOLD.
CallLevenshtein ==
    /\ pc = "resolver"
    /\ call.fn = "_levenshtein"
    /\ ~call.done
    /\ call' = [call EXCEPT !.result = _levenshtein(call.arg[1], call.arg[2],
                                                    _FUZZY_THRESHOLD),
                            !.done = TRUE]
    /\ UNCHANGED <<vocabulary, run_state, pc, memo>>

\* A direct call of levenshtein of the script with its default max_distance.
CallScriptLevenshtein ==
    /\ pc = "resolver"
    /\ call.fn = "levenshtein"
    /\ ~call.done
    /\ call' = [call EXCEPT !.result = levenshtein(call.arg[1], call.arg[2], 2),
                            !.done = TRUE]
    /\ UNCHANGED <<vocabulary, run_state, pc, memo>>

\* The strings of the calls: every string of a and b up to the length.
Words == SeqsUpTo({"a", "b"}, MaxWordLen)

InitDistance ==
    /\ pc = "resolver"
    /\ NoRun
    /\ canonical_categories = LoadCanonicalCategories(CommonCategoriesJson)
    /\ canonical_lookup = LoadCanonicalLookup(LoadCanonicalCategories(CommonCategoriesJson))
    /\ canonical_region_set = LoadCanonicalRegionSet(CommonRegionsJson)
    /\ region_map = LoadRegionMap(RegionMapJson, Len(RegionMapJson))
    /\ region_map_casefold =
           LoadRegionMapCasefold(LoadRegionMap(RegionMapJson, Len(RegionMapJson)))
    /\ \E fn \in {"_levenshtein", "levenshtein"}, left \in Words, right \in Words :
          call = [fn |-> fn, arg |-> <<left, right>>, result |-> None, done |-> FALSE]

NextDistance == CallLevenshtein \/ CallScriptLevenshtein

SpecDistance == InitDistance /\ [][NextDistance]_vars

(***************************************************************************)
(* Sequences of calls of the memoized functions                            *)
(***************************************************************************)

\* The arguments of the calls: names the vocabulary resolves directly, by case, within
\* two edits, and not at all; a date, a placeholder and the empty string.
CategoryArgs == { <<"A", "b">>, <<"a", "B">>, <<"b", "b", "b">>, <<"a", "a", "a", "a", "a">> }

RegionArgs == { <<"b", "b">>, <<"A", "B">>, <<"b">> }

DateArgs ==
    { <<"2", "0", "2", "4", "-", "0", "1", "-", "1", "5">>, <<"N", "U", "L", "L">>, <<>> }

\* The call that is made next.
NextCalls ==
    [fn : {"category"}, arg : CategoryArgs, result : {None}, done : {FALSE}]
    \cup [fn : {"region"}, arg : RegionArgs, result : {None}, done : {FALSE}]
    \cup [fn : {"date"}, arg : DateArgs, result : {None}, done : {FALSE}]

\* The caller goes on to its next call.
NextCall ==
    /\ pc = "resolver"
    /\ call.done
    /\ call' \in NextCalls
    /\ UNCHANGED <<vocabulary, run_state, pc, memo>>

\* The module is imported, nothing is cached, and a first call is about to be made.
InitMemo ==
    /\ pc = "resolver"
    /\ NoRun
    /\ canonical_categories = LoadCanonicalCategories(CommonCategoriesJson)
    /\ canonical_lookup = LoadCanonicalLookup(LoadCanonicalCategories(CommonCategoriesJson))
    /\ canonical_region_set = LoadCanonicalRegionSet(CommonRegionsJson)
    /\ region_map = LoadRegionMap(RegionMapJson, Len(RegionMapJson))
    /\ region_map_casefold =
           LoadRegionMapCasefold(LoadRegionMap(RegionMapJson, Len(RegionMapJson)))
    /\ call \in NextCalls

NextMemo == CallResolveCategory \/ CallResolveRegion \/ CallParseDate \/ NextCall

SpecMemo == InitMemo /\ [][NextMemo]_vars

(***************************************************************************)
(* aggregations/build.py                                                   *)
(*                                                                         *)
(* A clean parquet file is its size in bytes, its rows and the places at   *)
(* which parquet_file.iter_batches cuts them into batches.  A row holds    *)
(* discount_percent in hundredths, revenue in cents, quantity in tenths    *)
(* and sale_date as <<year, month, day>>; avg_discount_percent is in units *)
(* of 0.0001.  A table is a frame whose rows are records of its columns.   *)
(***************************************************************************)

_EMPTY_SCHEMAS ==
    [monthly_sales_summary |->
         <<"month", "total_revenue", "total_quantity", "avg_discount_percent", "order_count">>,
     top_products |->
         <<"rank", "product_name", "total_revenue", "total_quantity", "order_count",
           "metric_type">>,
     region_wise_performance |->
         <<"region", "total_revenue", "total_quantity", "order_count", "avg_order_value">>,
     category_discount_map |->
         <<"category", "avg_discount_percent", "order_count", "total_revenue">>,
     anomaly_records |->
         <<"rank", "order_id", "product_name", "category", "region", "revenue", "quantity",
           "unit_price", "discount_percent", "sale_date", "anomaly_reason">>]

\* The keys of _AGGREGATION_BUILDERS and of _CHUNKED_AGGREGATION_BUILDERS.
AggregationNames == DOMAIN _EMPTY_SCHEMAS

RECURSIVE BatchesFrom(_, _, _)
\* The batches of the rows from line `first` on.
BatchesFrom(rows, cuts, first) ==
    IF first > Len(rows) THEN <<>>
    ELSE LET later == {c \in cuts : c >= first}
             last_line == IF later = {} THEN Len(rows)
                          ELSE CHOOSE c \in later : \A o \in later : c <= o
         IN <<SubSeq(rows, first, last_line)>> \o BatchesFrom(rows, cuts, last_line + 1)

\* _iter_parquet_chunks(clean_path): the batches of the file, in order, as DataFrames.
_iter_parquet_chunks(parquet) == BatchesFrom(parquet.rows, parquet.cuts, 1)

\* The value a row is grouped by; month is sale_date.dt.strftime('%Y-%m').
KeyOf(row, by) == IF by = "month" THEN <<row.sale_date[1], row.sale_date[2]>> ELSE row[by]

\* The order of the keys of a groupby.
KeyBefore(by, a, b) ==
    IF by = "month" THEN a[1] * 100 + a[2] < b[1] * 100 + b[2] ELSE StrLess(a, b)

RECURSIVE SortedKeys(_, _)
SortedKeys(keys, by) ==
    IF keys = {} THEN <<>>
    ELSE LET first == CHOOSE k \in keys : \A o \in keys \ {k} : KeyBefore(by, k, o)
         IN <<first>> \o SortedKeys(keys \ {first}, by)

\* The keys of frame.groupby(by), which sorts them.
GroupKeys(rows, by) == SortedKeys({KeyOf(rows[i], by) : i \in 1..Len(rows)}, by)

RECURSIVE Group(_, _, _, _)
\* The group of a key: those of the first n rows that have it, in order.
Group(rows, by, key, n) ==
    IF n = 0 THEN <<>>
    ELSE IF KeyOf(rows[n], by) = key THEN Append(Group(rows, by, key, n - 1), rows[n])
    ELSE Group(rows, by, key, n - 1)

RECURSIVE Total(_, _, _)
\* group[column].sum(), from row i on.
Total(group, column, i) ==
    IF i > Len(group) THEN 0 ELSE group[i][column] + Total(group, column, i + 1)

\* group['order_id'].tolist() as a set.
OrderIds(group) == {group[i].order_id : i \in 1..Len(group)}

\* The value a defaultdict of totals creates for a new key; the category map keeps no
\* total_quantity.
NoTotals ==
    [total_revenue |-> 0, total_quantity |-> 0, discount_sum |-> 0, discount_count |-> 0,
     order_ids |-> {}]

\* The body of `for key, group in chunk.groupby(by)`: the += of the totals of the key.
\* totals is the dict in insertion order, a sequence of <<key, data>>.
AddGroup(totals, key, group) ==
    LET p == CachePosition(totals, key)
        data == IF p = 0 THEN NoTotals ELSE totals[p][2]
        updated ==
            [total_revenue |-> data.total_revenue + Total(group, "revenue", 1),
             total_quantity |-> data.total_quantity + Total(group, "quantity", 1),
             discount_sum |-> data.discount_sum
                              + Total(group, "discount_percent", 1) * Len(group),
             discount_count |-> data.discount_count + Len(group),
             order_ids |-> data.order_ids \cup OrderIds(group)]
    IN IF p = 0 THEN Append(totals, <<key, updated>>)
       ELSE [totals EXCEPT ![p] = <<key, updated>>]

RECURSIVE AddChunk(_, _, _, _, _)
\* for key, group in chunk.groupby(by), from the i-th key on.
AddChunk(totals, chunk, by, keys, i) ==
    IF i > Len(keys) THEN totals
    ELSE AddChunk(AddGroup(totals, keys[i], Group(chunk, by, keys[i], Len(chunk))),
                  chunk, by, keys, i + 1)

RECURSIVE ChunkedTotals(_, _, _, _)
\* for chunk in _iter_parquet_chunks(parquet_path), from the i-th chunk on.
ChunkedTotals(totals, chunks, by, i) ==
    IF i > Len(chunks) THEN totals
    ELSE ChunkedTotals(AddChunk(totals, chunks[i], by, GroupKeys(chunks[i], by), 1),
                       chunks, by, i + 1)

\* The number a table is sorted by.
SortRank(row, column) ==
    IF column = "month" THEN row.month[1] * 100 + row.month[2] ELSE row[column]

\* A row put into a sorted table, behind the rows of equal rank.
InsertSorted(sorted, row, column, ascending) ==
    LET n == Cardinality({i \in 1..Len(sorted) :
                 IF ascending THEN SortRank(sorted[i], column) <= SortRank(row, column)
                 ELSE SortRank(sorted[i], column) >= SortRank(row, column)})
    IN [i \in 1..(Len(sorted) + 1) |->
           IF i <= n THEN sorted[i] ELSE IF i = n + 1 THEN row ELSE sorted[i - 1]]

RECURSIVE sort_values(_, _, _, _)
\* The first n rows of a table sorted by a column.  Rows of equal rank keep their order,
\* as they do in the sort of a small table; no result is compared by their order.
sort_values(rows, column, ascending, n) ==
    IF n = 0 THEN <<>>
    ELSE InsertSorted(sort_values(rows, column, ascending, n - 1), rows[n], column, ascending)

\* round(discount_sum / discount_count, 4) if discount_count > 0 else 0
ChunkedAvgDiscount(data) ==
    IF data.discount_count > 0
    THEN RoundHalfEven(data.discount_sum * 100, data.discount_count)
    ELSE 0

\* pd.DataFrame(result_data).sort_values(column): KeyError for an empty result_data,
\* whose frame has no columns.
SortedResult(name, result_data, column, ascending) ==
    IF result_data = <<>> THEN "KeyError"
    ELSE Frame(_EMPTY_SCHEMAS[name],
               sort_values(result_data, column, ascending, Len(result_data)))

MonthlyResultData(totals) ==
    [i \in 1..Len(totals) |->
        [month |-> totals[i][1],
         total_revenue |-> totals[i][2].total_revenue,
         total_quantity |-> totals[i][2].total_quantity \div 10,
         avg_discount_percent |-> ChunkedAvgDiscount(totals[i][2]),
         order_count |-> Cardinality(totals[i][2].order_ids)]]

_monthly_sales_summary_chunked(parquet) ==
    SortedResult("monthly_sales_summary",
                 MonthlyResultData(ChunkedTotals(<<>>, _iter_parquet_chunks(parquet),
                                                 "month", 1)),
                 "month", TRUE)

\* One row of df.groupby("month").agg(...), rounded.
MonthlyGroup(month, group) ==
    [month |-> month,
     total_revenue |-> Total(group, "revenue", 1),
     total_quantity |-> Total(group, "quantity", 1) \div 10,
     avg_discount_percent |-> RoundHalfEven(Total(group, "discount_percent", 1) * 100,
                                            Len(group)),
     order_count |-> Cardinality(OrderIds(group))]

MonthlyGrouped(df, keys) ==
    [i \in 1..Len(keys) |-> MonthlyGroup(keys[i], Group(df, "month", keys[i], Len(df)))]

_monthly_sales_summary(df) ==
    Frame(_EMPTY_SCHEMAS["monthly_sales_summary"],
          sort_values(MonthlyGrouped(df, GroupKeys(df, "month")), "month", TRUE,
                      Len(GroupKeys(df, "month"))))

CategoryResultData(totals) ==
    [i \in 1..Len(totals) |->
        [category |-> totals[i][1],
         avg_discount_percent |-> ChunkedAvgDiscount(totals[i][2]),
         order_count |-> Cardinality(totals[i][2].order_ids),
         total_revenue |-> totals[i][2].total_revenue]]

_category_discount_map_chunked(parquet) ==
    SortedResult("category_discount_map",
                 CategoryResultData(ChunkedTotals(<<>>, _iter_parquet_chunks(parquet),
                                                  "category", 1)),
                 "avg_discount_percent", FALSE)

\* One row of df.groupby("category").agg(...), rounded.
CategoryGroup(category, group) ==
    [category |-> category,
     avg_discount_percent |-> RoundHalfEven(Total(group, "discount_percent", 1) * 100,
                                            Len(group)),
     order_count |-> Cardinality(OrderIds(group)),
     total_revenue |-> Total(group, "revenue", 1)]

CategoryGrouped(df, keys) ==
    [i \in 1..Len(keys) |-> CategoryGroup(keys[i], Group(df, "category", keys[i], Len(df)))]

_category_discount_map(df) ==
    Frame(_EMPTY_SCHEMAS["category_discount_map"],
          sort_values(CategoryGrouped(df, GroupKeys(df, "category")),
                      "avg_discount_percent", FALSE, Len(GroupKeys(df, "category"))))

\* The table of one of the other three builders: the builder and what it was given.
Built(builder, input, limit) == [builder |-> builder, input |-> input, limit |-> limit]

\* pd.DataFrame(columns=_EMPTY_SCHEMAS[name]) for every name.
EmptyAggregations == [name \in AggregationNames |-> Frame(_EMPTY_SCHEMAS[name], <<>>)]

\* The tables of _CHUNKED_AGGREGATION_BUILDERS.
ChunkedAggregations(parquet, top_products_limit, anomaly_limit) ==
    [monthly_sales_summary |-> _monthly_sales_summary_chunked(parquet),
     top_products |-> Built("_top_products_chunked", parquet, top_products_limit),
     region_wise_performance |-> Built("_region_wise_performance_chunked", parquet, None),
     category_discount_map |-> _category_discount_map_chunked(parquet),
     anomaly_records |-> Built("_anomaly_records_chunked", parquet, anomaly_limit)]

\* The tables of _AGGREGATION_BUILDERS.
InMemoryAggregations(frame, top_products_limit, anomaly_limit) ==
    [monthly_sales_summary |-> _monthly_sales_summary(frame),
     top_products |-> Built("_top_products", frame, top_products_limit),
     region_wise_performance |-> Built("_region_wise_performance", frame, None),
     category_discount_map |-> _category_discount_map(frame),
     anomaly_records |-> Built("_anomaly_records", frame, anomaly_limit)]

\* build_all_aggregations with chunk_threshold_gb = 1.0: the tables it writes, by name.
\* file_size_gb < 0.001 is st_size <= 1073741 and file_size_gb > 1.0 is
\* st_size > 1073741824.
build_all_aggregations(parquet, top_products_limit, anomaly_limit, force_chunked) ==
    LET use_chunked == force_chunked \/ parquet.st_size > 1073741824
    IN IF parquet.st_size <= 1073741 THEN EmptyAggregations
       ELSE IF use_chunked
       THEN ChunkedAggregations(parquet, top_products_limit, anomaly_limit)
       ELSE IF parquet.rows = <<>> THEN EmptyAggregations
       ELSE InMemoryAggregations(parquet.rows, top_products_limit, anomaly_limit)

\* A direct call of _monthly_sales_summary_chunked.
CallMonthlyChunked ==
    /\ pc = "resolver"
    /\ call.fn = "_monthly_sales_summary_chunked"
    /\ ~call.done
    /\ call' = [call EXCEPT !.result = _monthly_sales_summary_chunked(call.arg),
                            !.done = TRUE]
    /\ UNCHANGED <<vocabulary, run_state, pc, memo>>

\* A direct call of _monthly_sales_summary on the frame of the file.
CallMonthly ==
    /\ pc = "resolver"
    /\ call.fn = "_monthly_sales_summary"
    /\ ~call.done
    /\ call' = [call EXCEPT !.result = _monthly_sales_summary(call.arg.rows), !.done = TRUE]
    /\ UNCHANGED <<vocabulary, run_state, pc, memo>>

\* A direct call of _category_discount_map_chunked.
CallCategoryChunked ==
    /\ pc = "resolver"
    /\ call.fn = "_category_discount_map_chunked"
    /\ ~call.done
    /\ call' = [call EXCEPT !.result = _category_discount_map_chunked(call.arg),
                            !.done = TRUE]
    /\ UNCHANGED <<vocabulary, run_state, pc, memo>>

\* A direct call of _category_discount_map on the frame of the file.
CallCategory ==
    /\ pc = "resolver"
    /\ call.fn = "_category_discount_map"
    /\ ~call.done
    /\ call' = [call EXCEPT !.result = _category_discount_map(call.arg.rows), !.done = TRUE]
    /\ UNCHANGED <<vocabulary, run_state, pc, memo>>

\* A call of build_all_aggregations.
CallBuildAll ==
    /\ pc = "resolver"
    /\ call.fn = "build_all_aggregations"
    /\ ~call.done
    /\ call' = [call EXCEPT !.result = build_all_aggregations(call.arg, 10, 5,
                                                              call.arg.force_chunked),
                            !.done = TRUE]
    /\ UNCHANGED <<vocabulary, run_state, pc, memo>>

MaxDatasetRows == 3

\* A row of a clean dataset.
BaseCleanRow ==
    [order_id |-> <<"A">>, category |-> <<"A", "b">>, discount_percent |-> 10,
     revenue |-> 999, quantity |-> 25, sale_date |-> <<2024, 1, 15>>]

\* Rows of other orders, categories, months and discounts.
CleanRows ==
    {BaseCleanRow,
     [BaseCleanRow EXCEPT !.category = <<"B", "a", "b">>],
     [BaseCleanRow EXCEPT !.order_id = <<"B">>],
     [BaseCleanRow EXCEPT !.order_id = <<"B">>, !.sale_date = <<2024, 2, 1>>],
     [BaseCleanRow EXCEPT !.order_id = <<"B">>, !.discount_percent = 0, !.quantity = 10],
     [BaseCleanRow EXCEPT !.order_id = <<"a">>, !.discount_percent = 30, !.revenue = 2000],
     [BaseCleanRow EXCEPT !.order_id = <<"a">>, !.discount_percent = 0],
     [BaseCleanRow EXCEPT !.order_id = <<"b">>, !.category = <<"B", "a", "b">>]}

\* The datasets a run of the cleaner writes: no order_id twice.
CleanDatasets ==
    {rows \in SeqsUpTo(CleanRows, MaxDatasetRows) :
        \A i, j \in 1..Len(rows) : i # j => rows[i].order_id # rows[j].order_id}

\* The sizes of a clean parquet file in bytes: a few KB, either side of 0.001 GB, and
\* above 1 GB.
FileSizes == {4096, 1073741, 1073742, 1073741825}

\* The clean parquet files: a file without rows is a small one.
ParquetFiles ==
    {f \in [st_size : FileSizes, rows : CleanDatasets,
            cuts : SUBSET (1..(MaxDatasetRows - 1)), force_chunked : BOOLEAN] :
        /\ f.cuts \subseteq 1..(Len(f.rows) - 1)
        /\ f.rows = <<>> => f.st_size = 4096}

\* The files the builders are called with: build_all_aggregations calls them with a
\* dataset that has rows.
BuilderFiles ==
    {f \in ParquetFiles : f.rows # <<>> /\ f.st_size = 1073741825 /\ ~f.force_chunked}

BuilderNames ==
    {"_monthly_sales_summary_chunked", "_monthly_sales_summary",
     "_category_discount_map_chunked", "_category_discount_map"}

\* The cleaner is imported (build.py does not use it) and a builder or
\* build_all_aggregations is about to be called.
InitAggregate ==
    /\ pc = "resolver"
    /\ NoRun
    /\ canonical_categories = LoadCanonicalCategories(CommonCategoriesJson)
    /\ canonical_lookup = LoadCanonicalLookup(LoadCanonicalCategories(CommonCategoriesJson))
    /\ canonical_region_set = LoadCanonicalRegionSet(CommonRegionsJson)
    /\ region_map = LoadRegionMap(RegionMapJson, Len(RegionMapJson))
    /\ region_map_casefold =
           LoadRegionMapCasefold(LoadRegionMap(RegionMapJson, Len(RegionMapJson)))
    /\ \/ \E fn \in BuilderNames, parquet \in BuilderFiles :
             call = [fn |-> fn, arg |-> parquet, result |-> None, done |-> FALSE]
       \/ \E parquet \in ParquetFiles :
             call = [fn |-> "build_all_aggregations", arg |-> parquet, result |-> None,
                     done |-> FALSE]

NextAggregate ==
    CallMonthlyChunked \/ CallMonthly \/ CallCategoryChunked \/ CallCategory \/ CallBuildAll

SpecAggregate == InitAggregate /\ [][NextAggregate]_vars

(***************************************************************************)
(* What a run has produced                                                 *)
(***************************************************************************)

RECURSIVE RowsOf(_)
RowsOf(frames) == IF frames = <<>> THEN <<>> ELSE Head(frames).rows \o RowsOf(Tail(frames))

\* The Clean Records emitted so far: the rows written to the clean sink, and the rows
\* of the chunk whose write raised.
CleanRecords == RowsOf(clean_sink) \o (IF pc = "raised" THEN last.cleaned.rows ELSE <<>>)

\* The Rejected Records emitted so far, likewise.
RejectedRecords == RowsOf(rejected_sink) \o (IF pc = "raised" THEN last.rejected.rows ELSE <<>>)

\* The source row of line i became a Clean Record.
Kept(i) == \E k \in 1..Len(CleanRecords) : CleanRecords[k].idx = i

\* The source row of line i was rejected with the reason.
RejectedWith(i, reason) ==
    \E k \in 1..Len(RejectedRecords) :
        RejectedRecords[k].idx = i /\ RejectedRecords[k].rejection_reason = reason

\* The lines of the file whose normalized order_id is that of line i.
SameOrder(i) == {j \in 1..Len(file) : Strip(file[j].order_id) = Strip(file[i].order_id)}

\* The first line of a set of lines.
FirstOf(lines) == CHOOSE i \in lines : \A j \in lines : i <= j

\* The rejection reasons, in the order of the stages.
Reasons ==
    <<"missing_order_id_or_product", "duplicate_order_id", "unknown_category",
      "unknown_region", "invalid_unit_price", "zero_quantity", "invalid_sale_date",
      "sale_date_out_of_range", "invalid_calculated_revenue">>

\* The cleaned numbers of a source row.
CleanedNumbers(row) ==
    [unit_price |-> CleanUnitPrice(row.unit_price),
     quantity |-> CleanQuantity(row.quantity),
     discount_percent |-> _clean_discount(row.discount_percent)]

\* The source row, taken alone, fails what the stage of the reason demands.
ViolatesAlone(row, reason, config) ==
    CASE reason = "missing_order_id_or_product" ->
             Strip(row.order_id) = <<>> \/ Strip(row.product_name) = <<>>
      [] reason = "unknown_category" -> _resolve_category(Strip(row.category)) = None
      [] reason = "unknown_region" -> _resolve_region(Strip(row.region)) = None
      [] reason = "invalid_unit_price" ->
             row.unit_price.nan \/ row.unit_price.v <= 0 \/ row.unit_price.v >= 5000000
      [] reason = "zero_quantity" ->
             config.drop_zero_quantity /\ CleanQuantity(row.quantity).v = 0
      [] reason = "invalid_sale_date" ->
             _parse_multiple_date_formats(Strip(row.sale_date)) = None
      [] reason = "sale_date_out_of_range" ->
             /\ _parse_multiple_date_formats(Strip(row.sale_date)) # None
             /\ ~InDateRange(_parse_multiple_date_formats(Strip(row.sale_date)))
      [] reason = "invalid_calculated_revenue" ->
             Revenue(CleanedNumbers(row)).v >= 100000000
      [] OTHER -> FALSE

\* Line i of the latest chunk repeats the order_id of an earlier line of the chunk that
\* has an order_id and a product_name, or of a Clean Record of an earlier chunk.
Duplicates(i) ==
    \/ \E j \in last.first..(i - 1) :
          /\ ~ViolatesAlone(file[j], "missing_order_id_or_product", cfg)
          /\ Strip(file[j].order_id) = Strip(file[i].order_id)
    \/ \E k \in 1..Len(CleanRecords) :
          /\ CleanRecords[k].idx < last.first
          /\ CleanRecords[k].order_id = Strip(file[i].order_id)

\* The stages line i of the latest chunk violates, as positions in Reasons.
ViolatedStages(i) ==
    {k \in 1..Len(Reasons) :
        IF Reasons[k] = "duplicate_order_id" THEN Duplicates(i)
        ELSE ViolatesAlone(file[i], Reasons[k], cfg)}

(***************************************************************************)
(* C1                                                                      *)
(***************************************************************************)

\* C1: after any number of chunks, no two Clean Records emitted so far, of one chunk or
\* of different chunks, have the same whitespace-trimmed order_id.
C1_UniqueOrderIds ==
    \A i, j \in 1..Len(CleanRecords) :
        i # j => Strip(CleanRecords[i].order_id) # Strip(CleanRecords[j].order_id)

\* Two chunks are done, the file repeats an order_id across them under two spellings,
\* and Clean Records of two orders are out.
C1_Witness ==
    /\ Len(clean_sink) >= 2
    /\ \E i, j \in 1..pos :
          /\ i < j
          /\ file[i].order_id # file[j].order_id
          /\ Strip(file[i].order_id) = Strip(file[j].order_id)
          /\ Kept(i)
          /\ ~Kept(j)

(***************************************************************************)
(* C2                                                                      *)
(***************************************************************************)

RECURSIVE RunWith(_, _, _, _)
RunWith(config, first, seen, out) ==
    IF first > Len(file) THEN out
    ELSE LET last_line == Min2(first + config.chunk_size - 1, Len(file))
             result == _clean_chunk(ReadChunk(file, first, last_line), seen, config)
         IN RunWith(config, last_line + 1, result.seen,
                    [clean |-> out.clean \cup
                               {result.cleaned.rows[k] : k \in 1..Len(result.cleaned.rows)},
                     reasons |-> out.reasons \cup
                                 {<<result.rejected.rows[k].idx,
                                    result.rejected.rows[k].rejection_reason>> :
                                      k \in 1..Len(result.rejected.rows)}])

\* The Clean Records and the reasons of the rejected lines of the run itself.
Outcome ==
    [clean |-> {CleanRecords[k] : k \in 1..Len(CleanRecords)},
     reasons |-> {<<RejectedRecords[k].idx, RejectedRecords[k].rejection_reason>> :
                     k \in 1..Len(RejectedRecords)}]

\* C3 as stated: a finished run has the Clean Records and the rejection reasons that the
\* run over the same rows has with any other chunk size.
C3_ChunkSizeIndependent ==
    (pc = "done" /\ cfg.save_rejected_rows) =>
        \A n \in 1..MaxChunkSize :
            RunWith([cfg EXCEPT !.chunk_size = n], 1, {}, [clean |-> {}, reasons |-> {}])
                = Outcome

(***************************************************************************)
(* C4                                                                      *)
(***************************************************************************)

\* The reason is that of the earliest of the stages, which are not none.
IsEarliestOf(reason, stages) == stages # {} /\ reason = Reasons[FirstOf(stages)]

\* C4: the rejection_reason of every row the latest chunk rejected is the reason of the
\* earliest stage, in the order of Reasons, that the row violates.
C4_EarliestStageReason ==
    cfg.save_rejected_rows =>
        \A k \in 1..Len(last.rejected.rows) :
            IsEarliestOf(last.rejected.rows[k].rejection_reason,
                         ViolatedStages(last.rejected.rows[k].idx))

\* A row violating two stages, the duplicate stage and a later one, has been rejected.
C4_Witness ==
    /\ cfg.save_rejected_rows
    /\ \E k \in 1..Len(last.rejected.rows) :
          /\ Cardinality(ViolatedStages(last.rejected.rows[k].idx)) >= 2
          /\ last.rejected.rows[k].rejection_reason = "duplicate_order_id"

(***************************************************************************)
(* C5                                                                      *)
(***************************************************************************)

\* The number of rows of the sequence that come from line i.
Occurrences(rows, i) == Cardinality({k \in 1..Len(rows) : rows[k].idx = i})

\* C5: with save_rejected_rows, every line of the latest chunk is once in exactly one of
\* the cleaned and the rejected output of _clean_chunk, nothing else is in them, and
\* every rejected row has one of the rejection reasons.
C5_ChunkPartition ==
    cfg.save_rejected_rows =>
        /\ \A i \in last.first..last.last_line :
              Occurrences(last.cleaned.rows, i) + Occurrences(last.rejected.rows, i) = 1
        /\ Len(last.cleaned.rows) + Len(last.rejected.rows) = last.last_line - last.first + 1
        /\ \A k \in 1..Len(last.rejected.rows) :
              \E r \in 1..Len(Reasons) : last.rejected.rows[k].rejection_reason = Reasons[r]

\* A chunk of three rows: one kept and two rejected at different stages.
C5_Witness ==
    /\ cfg.save_rejected_rows
    /\ Len(last.cleaned.rows) = 1
    /\ Len(last.rejected.rows) = 2
    /\ last.rejected.rows[1].rejection_reason # last.rejected.rows[2].rejection_reason

(***************************************************************************)
(* C6                                                                      *)
(***************************************************************************)

\* C6: the category of every Clean Record is in the canonical category list and its
\* region in the canonical region list; neither is "UNKNOWN".
C6_CanonicalVocabulary ==
    \A k \in 1..Len(CleanRecords) :
        /\ \E c \in 1..Len(canonical_categories) :
              CleanRecords[k].category = canonical_categories[c]
        /\ CleanRecords[k].region \in canonical_region_set
        /\ CleanRecords[k].category # UNKNOWN
        /\ CleanRecords[k].region # UNKNOWN

\* A Clean Record whose source row has a category and a region that are not canonical.
C6_Witness ==
    \E k \in 1..Len(CleanRecords) :
        /\ \A c \in 1..Len(canonical_categories) :
              file[CleanRecords[k].idx].category # canonical_categories[c]
        /\ file[CleanRecords[k].idx].region \notin canonical_region_set

(***************************************************************************)
(* C7                                                                      *)
(***************************************************************************)

FoldedAlphabet == {FoldChar(c) : c \in Alphabet}

\* The case-folded strings at most one insertion, deletion or substitution from s.
WithinOneEdit(s) ==
    {s}
    \cup {SubSeq(s, 1, i - 1) \o SubSeq(s, i + 1, Len(s)) : i \in 1..Len(s)}
    \cup {[s EXCEPT ![i[1]] = i[2]] : i \in (1..Len(s)) \X FoldedAlphabet}
    \cup {SubSeq(s, 1, i[1]) \o <<i[2]>> \o SubSeq(s, i[1] + 1, Len(s)) :
             i \in (0..Len(s)) \X FoldedAlphabet}

\* The unit-cost edit distance of two case-folded strings when it is at most 2, and 3
\* when it is more: two edits apart is one edit from a common string.
EditDistance(a, b) ==
    IF a = b THEN 0
    ELSE IF b \in WithinOneEdit(a) THEN 1
    ELSE IF WithinOneEdit(a) \cap WithinOneEdit(b) # {} THEN 2
    ELSE 3

\* The distance of the canonical category c to the trimmed and case-folded argument.
CategoryDistance(c) == EditDistance(Casefold(Strip(call.arg)), Casefold(c))

\* The least distance of a canonical category, 3 when there is none within 2.
MinCategoryDistance ==
    FirstOf({3} \cup {CategoryDistance(canonical_categories[c]) :
                         c \in 1..Len(canonical_categories)})

\* The call returned a canonical category at the least distance.
ReturnsNearestCategory ==
    \E c \in 1..Len(canonical_categories) :
        /\ call.result = canonical_categories[c]
        /\ CategoryDistance(canonical_categories[c]) = MinCategoryDistance

\* C7 as stated: _resolve_category returns a canonical category at the least distance
\* whenever that distance is at most 2, and None whenever every canonical category
\* is further than 2 or the argument is empty after trimming.
C7_NearestWithinThreshold ==
    (call.fn = "category" /\ call.done) =>
        /\ MinCategoryDistance <= 2 => ReturnsNearestCategory
        /\ (MinCategoryDistance > 2 \/ Strip(call.arg) = <<>>) => call.result = None

\* C7, amended: None for an argument that is empty after trimming; for any other one a
\* canonical category at the least distance when that distance is at most 2, else None.
C7_NearestWithinThresholdNonEmpty ==
    (call.fn = "category" /\ call.done) =>
        IF Strip(call.arg) = <<>> THEN call.result = None
        ELSE IF MinCategoryDistance <= 2 THEN ReturnsNearestCategory
        ELSE call.result = None

\* The call resolved an argument that is no canonical category in any case, one
\* edit from the category returned and two edits from another.
C7_Witness ==
    /\ call.fn = "category"
    /\ call.done
    /\ call.result # None
    /\ CategoryDistance(call.result) = 1
    /\ \E c \in 1..Len(canonical_categories) : CategoryDistance(canonical_categories[c]) = 2

(***************************************************************************)
(* C8                                                                      *)
(***************************************************************************)

\* The targets other than "UNKNOWN" that the alias map gives the trimmed argument and
\* that its case-insensitive copy gives the case-folded form of it.
KeyTargets ==
    ((IF DictHas(region_map, Strip(call.arg))
      THEN {DictGet(region_map, Strip(call.arg))} ELSE {})
     \cup (IF Casefold(Strip(call.arg)) \in DOMAIN region_map_casefold
           THEN {region_map_casefold[Casefold(Strip(call.arg))]} ELSE {}))
    \ {UNKNOWN}

\* C8 as stated: _resolve_region returns a region if and only if the trimmed argument or
\* its case-folded form is a key of the alias map with a target other than "UNKNOWN",
\* and then it returns that target.
C8_ResolvesIffAliasKey ==
    (call.fn = "region" /\ call.done) =>
        /\ call.result # None <=> KeyTargets # {}
        /\ call.result # None => call.result \in KeyTargets

\* The positions of the keys of the alias map that case-fold as the trimmed argument does.
CasefoldHits == {i \in 1..Len(region_map) :
                    Casefold(region_map[i][1]) = Casefold(Strip(call.arg))}

\* The target the lookup reaches: of the trimmed argument when it is a key, else of the
\* last key, in the order of the map, that case-folds as the argument does.
ReachedTarget ==
    IF DictHas(region_map, Strip(call.arg)) THEN DictGet(region_map, Strip(call.arg))
    ELSE IF CasefoldHits # {}
         THEN region_map[CHOOSE i \in CasefoldHits : \A j \in CasefoldHits : j <= i][2]
         ELSE None

\* C8, amended: _resolve_region returns the target the lookup reaches unless there is
\* none or it is "UNKNOWN", and None then.
C8_ExactThenCasefold ==
    (call.fn = "region" /\ call.done) =>
        call.result = IF ReachedTarget = UNKNOWN THEN None ELSE ReachedTarget

\* The call resolved an argument that is no key of the alias map through a key that
\* differs from it in case, in a map holding a second key that case-folds the same.
C8_Witness ==
    /\ call.fn = "region"
    /\ call.done
    /\ call.result # None
    /\ ~DictHas(region_map, Strip(call.arg))
    /\ Cardinality(CasefoldHits) = 2

(***************************************************************************)
(* C9                                                                      *)
(***************************************************************************)

\* round(unit_price * quantity * (1 - discount_percent), 2) of a record, in cents.
RecomputedRevenue(r) ==
    LET gross == r.unit_price.v * (r.quantity.v \div 10)
        keep == 100 - r.discount_percent.v
        whole == (gross \div 100) * keep + ((gross % 100) * keep) \div 100
        rest == ((gross % 100) * keep) % 100
    IN IF rest > 50 THEN whole + 1
       ELSE IF rest < 50 THEN whole
       ELSE whole + (whole % 2)

\* C9: in every Clean Record the quantity is a whole number >= 0, the discount is in
\* [0, 1], and revenue is round(unit_price * quantity * (1 - discount_percent), 2) of the
\* cleaned values, at least 0 and below 1,000,000.
C9_RevenueRecomputed ==
    \A k \in 1..Len(CleanRecords) :
        /\ CleanRecords[k].quantity.v >= 0
        /\ CleanRecords[k].quantity.v % 10 = 0
        /\ CleanRecords[k].discount_percent.v \in 0..100
        /\ ~CleanRecords[k].revenue.nan
        /\ CleanRecords[k].revenue.v = RecomputedRevenue(CleanRecords[k])
        /\ CleanRecords[k].revenue.v >= 0
        /\ CleanRecords[k].revenue.v < 100000000

\* A Clean Record with a revenue above 0 whose source row carried another revenue and a
\* fractional quantity.
C9_Witness ==
    \E k \in 1..Len(CleanRecords) :
        /\ CleanRecords[k].revenue.v > 0
        /\ file[CleanRecords[k].idx].revenue # CleanRecords[k].revenue
        /\ file[CleanRecords[k].idx].quantity.v % 10 # 0

(***************************************************************************)
(* C10                                                                     *)
(***************************************************************************)

\* The columns of the clean sink as documented.
DocumentedColumns ==
    <<"order_id", "product_name", "category", "quantity", "unit_price",
      "discount_percent", "region", "sale_date", "customer_email", "revenue",
      "anomaly_flag">>

\* C10 as stated: every table written to the clean sink, the one written when no row
\* survives included, has the documented columns, and no write is refused.
C10_DocumentedColumnSet ==
    /\ pc # "raised"
    /\ \A k \in 1..Len(clean_sink) : clean_sink[k].cols = DocumentedColumns

(***************************************************************************)
(* C11                                                                     *)
(***************************************************************************)

\* The fields of the Raw Record on line i of the file, as pd.read_csv hands them out.
RawRecord(i) == ReadChunk(file, i, i).rows[1]

\* The columns that the stages after the first change in place.
CanonicalizedColumns == <<"category", "region", "quantity", "unit_price", "discount_percent">>

\* C11 as stated, on the columns its examples name: every Rejected Record carries the
\* category, region, quantity, unit_price and discount_percent of its Raw Record as they
\* were in the source, whatever the stage that rejected it: not canonicalized and not
\* coerced.
C11_RejectedCarryRaw ==
    \A k \in 1..Len(RejectedRecords) :
        \A c \in 1..Len(CanonicalizedColumns) :
            RejectedRecords[k][CanonicalizedColumns[c]] =
                RawRecord(RejectedRecords[k].idx)[CanonicalizedColumns[c]]

(***************************************************************************)
(* C12                                                                     *)
(***************************************************************************)

\* Line i of the latest chunk with its discount_percent replaced by zero.
Undiscounted(i) == [file[i] EXCEPT !.discount_percent = Num(0)]

\* C12: a Clean Record holds the cleaned discount_percent of its source row, and its
\* anomaly_flag is "heavy_discount" when that discount exceeds 0.80 and missing
\* otherwise; and the discount alone rejects no row: a row of the latest chunk that is
\* not a Clean Record repeats an order_id or fails a stage even with a discount of zero.
C12_HeavyDiscountFlagged ==
    /\ \A k \in 1..Len(CleanRecords) :
          /\ CleanRecords[k].discount_percent =
                 _clean_discount(file[CleanRecords[k].idx].discount_percent)
          /\ CleanRecords[k].anomaly_flag =
                 (IF CleanRecords[k].discount_percent.v > 80 THEN "heavy_discount" ELSE NA)
    /\ \A i \in last.first..last.last_line :
          \/ Kept(i)
          \/ Duplicates(i)
          \/ \E k \in 1..Len(Reasons) : ViolatesAlone(Undiscounted(i), Reasons[k], cfg)

\* A Clean Record with discount 0.85 is flagged and another Clean Record of the run,
\* with a discount of at most 0.80, is not.
C12_Witness ==
    \E i, j \in 1..Len(CleanRecords) :
        /\ CleanRecords[i].discount_percent.v = 85
        /\ CleanRecords[i].anomaly_flag = "heavy_discount"
        /\ CleanRecords[j].discount_percent.v <= 80
        /\ CleanRecords[j].anomaly_flag = NA

(***************************************************************************)
(* C13                                                                     *)
(***************************************************************************)

\* C13 as stated: for a source CSV with the required header, whatever the values of its
\* fields, clean_csv_to_parquet does not raise: no row's data aborts the run.
C13_NoRowAbortsTheRun == pc # "raised"

(***************************************************************************)
(* C14                                                                     *)
(***************************************************************************)

\* C14: a run in which no row has become a Clean Record does not raise, and when it has
\* returned, the clean output is one readable table with the ten columns of the empty
\* file and zero rows.
C14_EmptyOutputWritten ==
    CleanRecords = <<>> =>
        /\ pc # "raised"
        /\ pc = "done" =>
              /\ Len(clean_sink) = 1
              /\ clean_sink[1].rows = <<>>
              /\ clean_sink[1].cols = EmptyFileColumns

\* A run over two or more rows, in two or more chunks, has returned; every row was
\* rejected and the clean output is the table without rows.
C14_Witness ==
    /\ pc = "done"
    /\ Len(file) >= 2
    /\ cfg.chunk_size = 1
    /\ Len(RejectedRecords) = Len(file)
    /\ CleanRecords = <<>>
    /\ clean_sink = <<Frame(EmptyFileColumns, <<>>)>>

\* A run over a file with a header and no rows has returned with the table without rows.
C14_WitnessNoRows ==
    /\ pc = "done"
    /\ file = <<>>
    /\ clean_sink = <<Frame(EmptyFileColumns, <<>>)>>

(***************************************************************************)
(* C15                                                                     *)
(***************************************************************************)

\* The position of a column in a header.
ColumnPosition(cols, c) == CHOOSE p \in 1..Len(cols) : cols[p] = c

\* The value that line r of the k-th batch appended to the rejected CSV has at position p:
\* DataFrame.to_csv writes the batch's own columns in the batch's own order.
FieldAt(k, r, p) ==
    IF p <= Len(rejected_sink[k].cols)
    THEN rejected_sink[k].rows[r][rejected_sink[k].cols[p]]
    ELSE NA

\* C15 as stated, in its conclusion: the rejected CSV has its header from the first
\* non-empty rejected batch on, and every line of every batch has, under the header's
\* column rejection_reason, one of the nine rejection reasons.
C15_ReasonUnderHeader ==
    /\ rejected_csv_written <=> rejected_sink # <<>>
    /\ \A k \in 1..Len(rejected_sink) :
          \A r \in 1..Len(rejected_sink[k].rows) :
              \E n \in 1..Len(Reasons) :
                  FieldAt(k, r, ColumnPosition(rejected_sink[1].cols, "rejection_reason"))
                      = Reasons[n]

(***************************************************************************)
(* C16                                                                     *)
(***************************************************************************)

\* C16 as stated: a source CSV that lacks a documented column, or that has a column more,
\* is processed without an error of the cleaner.
C16_ColumnsTolerated == pc # "raised_in_clean_chunk"

(***************************************************************************)
(* C17                                                                     *)
(***************************************************************************)

\* unit_price and discount_percent of a Clean Record are in their ranges: 0 < unit_price
\* < 50000 (in cents) and 0 <= discount_percent <= 1 (in hundredths); its quantity (in
\* tenths) is a non-negative integer.
NumbersInRange(record) ==
    /\ ~record.quantity.nan /\ ~record.unit_price.nan /\ ~record.discount_percent.nan
    /\ record.quantity.v % 10 = 0
    /\ record.quantity.v >= 0
    /\ record.unit_price.v > 0
    /\ record.unit_price.v < 5000000
    /\ record.discount_percent.v >= 0
    /\ record.discount_percent.v <= 100

\* C17 as stated: under every CleanConfig, drop_zero_quantity = False included, every
\* Clean Record has an integer quantity > 0, 0 < unit_price < 50000 and
\* 0 <= discount_percent <= 1.
C17_NumbersInRangeAnyConfig ==
    \A k \in 1..Len(CleanRecords) :
        NumbersInRange(CleanRecords[k]) /\ CleanRecords[k].quantity.v > 0

\* C17, amended: under every CleanConfig every Clean Record has an integer quantity >= 0,
\* 0 < unit_price < 50000 and 0 <= discount_percent <= 1; its quantity is > 0 when
\* drop_zero_quantity is set, and without it the rows whose cleaned quantity is 0 are not
\* rejected for their quantity.
C17_NumbersInRange ==
    /\ \A k \in 1..Len(CleanRecords) :
          /\ NumbersInRange(CleanRecords[k])
          /\ CleanRecords[k].quantity = CleanQuantity(file[CleanRecords[k].idx].quantity)
          /\ cfg.drop_zero_quantity => CleanRecords[k].quantity.v > 0
    /\ \A i \in 1..pos : ~cfg.drop_zero_quantity => ~RejectedWith(i, "zero_quantity")

\* Without drop_zero_quantity a row without a quantity has become a Clean Record with
\* quantity 0, next to a Clean Record with a positive quantity.
C17_Witness ==
    /\ ~cfg.drop_zero_quantity
    /\ \E i, j \in 1..Len(CleanRecords) :
          /\ file[CleanRecords[i].idx].quantity.nan
          /\ CleanRecords[i].quantity.v = 0
          /\ CleanRecords[j].quantity.v > 0

(***************************************************************************)
(* C18                                                                     *)
(***************************************************************************)

\* An artifact has the wrong top-level JSON type.
WrongTopLevelType(artifacts) ==
    \/ artifacts.common_categories.type # "list"
    \/ artifacts.common_regions.type # "list"
    \/ artifacts.region_map.type # "dict"

\* Some entry of region_map.json targets a string that, trimmed, is neither "UNKNOWN" nor
\* one of the trimmed names of common_regions.json.
SomeEntryTargetsUnknownRegion(artifacts) ==
    \E i \in 1..Len(artifacts.region_map.items) :
        /\ Strip(artifacts.region_map.items[i][2]) # UNKNOWN
        /\ \A j \in 1..Len(artifacts.common_regions.items) :
              Strip(artifacts.region_map.items[i][2]) # Strip(artifacts.common_regions.items[j])

\* C18 as stated: the import raises the configuration error, before any row is processed,
\* whenever an artifact has the wrong top-level type or an entry of the region mapping
\* targets a string that is neither a canonical region nor "UNKNOWN"; and when it does
\* not raise, every value of the alias map is a canonical region or "UNKNOWN".
C18_LoaderFailsFast ==
    pc # "import" =>
        /\ (WrongTopLevelType(call.arg) \/ SomeEntryTargetsUnknownRegion(call.arg))
               => pc = "config_error"
        /\ pc = "config_error" => (pos = 0 /\ clean_sink = <<>> /\ rejected_sink = <<>>)
        /\ pc # "config_error" =>
               \A i \in 1..Len(region_map) :
                   region_map[i][2] = UNKNOWN \/ region_map[i][2] \in canonical_region_set

(***************************************************************************)
(* C19                                                                     *)
(***************************************************************************)

\* The four formats in their order, as the places of year, month and day among the three
\* pieces of a date string, and the separator: Y-M-D, M/D/Y, D-M-Y, Y/M/D.
FormatTable ==
    << <<"-", 1, 2, 3>>, <<"/", 3, 1, 2>>, <<"-", 3, 2, 1>>, <<"/", 1, 2, 3>> >>

\* The string is three runs of digits with the separator between them, at positions i
\* and j.
SplitsAt(s, sep, i, j) ==
    /\ i < j
    /\ \A n \in 1..Len(s) : IF n \in {i, j} THEN s[n] = sep ELSE IsDigit(s[n])

\* The ways to cut the string into three runs of digits around two separators.
Pieces(s, sep) ==
    {<<SubSeq(s, 1, ij[1] - 1), SubSeq(s, ij[1] + 1, ij[2] - 1), SubSeq(s, ij[2] + 1, Len(s))>> :
        ij \in {x \in (1..Len(s)) \X (1..Len(s)) : SplitsAt(s, sep, x[1], x[2])}}

\* The dates <<y, m, d>> that the string spells under format k: a year of four digits, a
\* month and a day of one or two digits, the day within the month, the date within what a
\* Timestamp holds.
DatesUnder(s, k) ==
    {date \in {<<NumVal(piece[FormatTable[k][2]]), NumVal(piece[FormatTable[k][3]]),
                 NumVal(piece[FormatTable[k][4]])>> :
                  piece \in {q \in Pieces(s, FormatTable[k][1]) :
                                /\ Len(q[FormatTable[k][2]]) = 4
                                /\ Len(q[FormatTable[k][3]]) \in {1, 2}
                                /\ Len(q[FormatTable[k][4]]) \in {1, 2}}} :
        /\ date[2] >= 1 /\ date[2] <= 12
        /\ date[3] >= 1 /\ date[3] <= DaysInMonth(date[1], date[2])
        /\ TimestampInBounds(date)}

\* The formats under which the string parses.
ParsingFormats(s) ==
    IF s = None THEN {} ELSE {k \in 1..Len(FormatTable) : DatesUnder(s, k) # {}}

\* Month-day-year with dashes, day-month-year with slashes and a day above 12, month 13,
\* the empty string and null.
StringsWithoutDate ==
    { <<"0", "1", "-", "1", "5", "-", "2", "0", "2", "4">>,
      <<"1", "5", "/", "0", "1", "/", "2", "0", "2", "4">>,
      <<"2", "0", "2", "4", "-", "1", "3", "-", "0", "1">>,
      <<>>, None }

\* C19: _parse_multiple_date_formats(s) returns the date that s spells under the first of
\* the four formats, in their order, under which s parses, and None when s is empty, null
\* or parses under none of them, as month-day-year with dashes, day-month-year with
\* slashes and a day above 12, or a month 13; a string of length 10, which takes the fast
\* path, is no exception.
C19_FirstFormatThatParses ==
    (call.fn = "date" /\ call.done) =>
        /\ IF ParsingFormats(call.arg) = {}
           THEN call.result = None
           ELSE call.result \in
                    DatesUnder(call.arg, CHOOSE k \in ParsingFormats(call.arg) :
                                             \A n \in ParsingFormats(call.arg) : k <= n)
        /\ call.arg \in StringsWithoutDate => call.result = None

\* A string of length 10 with dashes after its second and fifth character was parsed on
\* the fast path, day first.
C19_Witness ==
    /\ call.fn = "date"
    /\ call.done
    /\ Len(call.arg) = 10
    /\ FastPathFormat(call.arg) = 3
    /\ call.result # None
    /\ call.result[3] > 12

(***************************************************************************)
(* C20                                                                     *)
(***************************************************************************)

\* The canonical regions of the call of build_mapping.
Canonicals == {call.arg.canonicals[i] : i \in 1..Len(call.arg.canonicals)}

\* The trimmed raw value has no canonical region within edit distance 2, both case-folded.
NoRegionWithinThreshold(raw_value) ==
    \A c \in Canonicals : EditDistance(Casefold(Strip(raw_value)), Casefold(c)) > 2

\* C20 as stated: each value of the mapping that build_mapping returned is a canonical
\* region or "UNKNOWN", and a raw value of the counter with no canonical region within
\* edit distance 2 is mapped to "UNKNOWN" (read for the raw values that are not empty
\* after trimming, under the trimmed form, which is the key the mapping has for them).
C20_OnlyCanonicalTargets ==
    (call.fn = "build_mapping" /\ call.done) =>
        /\ \A i \in 1..Len(call.result) :
              call.result[i][2] = UNKNOWN \/ call.result[i][2] \in Canonicals
        /\ \A n \in 1..Len(call.arg.most_common) :
              (/\ Strip(call.arg.most_common[n]) # <<>>
               /\ NoRegionWithinThreshold(call.arg.most_common[n])) =>
                  DictGet(call.result, Strip(call.arg.most_common[n])) = UNKNOWN

\* C20, amended: the entries of the existing mapping are in the result as they were; every
\* other value of the result is a canonical region or the unknown label that was passed;
\* and a raw value of the counter that is not empty after trimming and is not a key of the
\* existing mapping is mapped, under its trimmed form, to the unknown label when no
\* canonical region is within edit distance 2 of it, and else to a canonical region at
\* the least distance.
C20_CanonicalLabelOrExisting ==
    (call.fn = "build_mapping" /\ call.done) =>
        /\ \A i \in 1..Len(call.arg.existing) :
              DictGet(call.result, call.arg.existing[i][1]) = call.arg.existing[i][2]
        /\ \A i \in 1..Len(call.result) :
              \/ DictHas(call.arg.existing, call.result[i][1])
              \/ call.result[i][2] = call.arg.unknown_label
              \/ call.result[i][2] \in Canonicals
        /\ \A n \in 1..Len(call.arg.most_common) :
              \/ Strip(call.arg.most_common[n]) = <<>>
              \/ DictHas(call.arg.existing, Strip(call.arg.most_common[n]))
              \/ IF NoRegionWithinThreshold(call.arg.most_common[n])
                 THEN DictGet(call.result, Strip(call.arg.most_common[n]))
                          = call.arg.unknown_label
                 ELSE \E c \in Canonicals :
                          /\ DictGet(call.result, Strip(call.arg.most_common[n])) = c
                          /\ \A o \in Canonicals :
                                EditDistance(Casefold(Strip(call.arg.most_common[n])),
                                             Casefold(c))
                                    <= EditDistance(Casefold(Strip(call.arg.most_common[n])),
                                                    Casefold(o))

\* build_mapping returned a mapping with an entry kept from the existing mapping whose
\* value is no canonical region, a raw value mapped to a canonical region two edits away,
\* and a raw value mapped to an unknown label that is not "UNKNOWN".
C20_Witness ==
    /\ call.fn = "build_mapping"
    /\ call.done
    /\ \E i \in 1..Len(call.arg.existing) :
          /\ call.arg.existing[i][2] \notin Canonicals \cup {UNKNOWN}
          /\ DictGet(call.result, call.arg.existing[i][1]) = call.arg.existing[i][2]
    /\ \E n \in 1..Len(call.arg.most_common) :
          /\ DictGet(call.result, call.arg.most_common[n]) \in Canonicals
          /\ EditDistance(Casefold(call.arg.most_common[n]),
                          Casefold(DictGet(call.result, call.arg.most_common[n]))) = 2
    /\ \E n \in 1..Len(call.arg.most_common) :
          /\ NoRegionWithinThreshold(call.arg.most_common[n])
          /\ call.arg.unknown_label # UNKNOWN
          /\ DictGet(call.result, call.arg.most_common[n]) = call.arg.unknown_label

(***************************************************************************)
(* C21                                                                     *)
(***************************************************************************)

\* The region of line i is a misspelling: not a canonical region name, and within two
\* edits of one when both are case-folded.
Misspelled(i) ==
    /\ Strip(file[i].region) \notin canonical_region_set
    /\ \E c \in canonical_region_set :
          EditDistance(Casefold(Strip(file[i].region)), Casefold(c)) <= 2

\* The Clean Record of line i has a canonical region within two edits of the region of
\* the line.
KeptWithNearRegion(i) ==
    \E k \in 1..Len(CleanRecords) :
        /\ CleanRecords[k].idx = i
        /\ CleanRecords[k].region \in canonical_region_set
        /\ EditDistance(Casefold(Strip(file[i].region)),
                        Casefold(CleanRecords[k].region)) <= 2

\* The targets of the alias map for the region of line i: of the trimmed region as a key,
\* and of a key that case-folds as the trimmed region does.
AliasTargetsOf(i) ==
    {region_map[k][2] : k \in {n \in 1..Len(region_map) :
                                  Casefold(region_map[n][1]) = Casefold(Strip(file[i].region))}}

\* Line i violates a stage other than the region stage.
FailsAnotherStage(i) ==
    \E k \in 1..Len(Reasons) :
        IF Reasons[k] = "unknown_region" THEN FALSE
        ELSE IF Reasons[k] = "duplicate_order_id" THEN Duplicates(i)
        ELSE ViolatesAlone(file[i], Reasons[k], cfg)

CleanOrderIds == {CleanRecords[k].order_id : k \in 1..Len(CleanRecords)}

\* The order_ids of the rows that survived every stage of the latest chunk.
SurvivorOrderIds == {last.cleaned.rows[k].order_id : k \in 1..Len(last.cleaned.rows)}

\* C22: every step of a run leaves the Seen-Order-ID Set equal to the set of the order_ids
\* of the Clean Records emitted so far; the set never shrinks, what it gains are order_ids
\* of rows that survived every stage of the chunk just processed, and a chunk with no
\* survivors leaves it unchanged.
C22_SeenIsCleanOrderIds ==
    [][/\ seen_order_ids \subseteq seen_order_ids'
       /\ seen_order_ids' = CleanOrderIds'
       /\ (seen_order_ids' \ seen_order_ids) \subseteq SurvivorOrderIds'
       /\ (pos' # pos /\ SurvivorOrderIds' = {}) => seen_order_ids' = seen_order_ids]_vars

\* After a chunk with a survivor, a later chunk had no survivor: the set holds the order_id
\* of the Clean Record and not the order_id of a row whose rows were all rejected.
C22_Witness ==
    /\ last.first > 1
    /\ last.cleaned.rows = <<>>
    /\ seen_order_ids # {}
    /\ seen_order_ids = CleanOrderIds
    /\ \E i \in last.first..last.last_line :
          /\ Strip(file[i].order_id) # <<>>
          /\ Strip(file[i].order_id) \notin seen_order_ids

(***************************************************************************)
(* C23                                                                     *)
(***************************************************************************)

\* The rows with the customer_email of each replaced by the one of BaseRow.
WithBaseEmail(rows) ==
    [i \in 1..Len(rows) |-> [rows[i] EXCEPT !.customer_email = BaseRow.customer_email]]

\* The loop of clean_csv_to_parquet over the rows from line first on: the lines that its
\* calls of _clean_chunk keep and the reasons of the lines they reject, added to out.
RECURSIVE RunOver(_, _, _, _, _)
RunOver(rows, config, first, seen, out) ==
    IF first > Len(rows) THEN out
    ELSE LET last_line == Min2(first + config.chunk_size - 1, Len(rows))
             result == _clean_chunk(ReadChunk(rows, first, last_line), seen, config)
         IN RunOver(rows, config, last_line + 1, result.seen,
                    [kept |-> out.kept \cup
                              {result.cleaned.rows[k].idx : k \in 1..Len(result.cleaned.rows)},
                     reasons |-> out.reasons \cup
                                 {<<result.rejected.rows[k].idx,
                                    result.rejected.rows[k].rejection_reason>> :
                                      k \in 1..Len(result.rejected.rows)}])

\* The lines the run itself kept and the reasons of the lines it rejected.
KeptAndReasons ==
    [kept |-> {CleanRecords[k].idx : k \in 1..Len(CleanRecords)},
     reasons |-> {<<RejectedRecords[k].idx, RejectedRecords[k].rejection_reason>> :
                     k \in 1..Len(RejectedRecords)}]

\* The string has the shape local@domain.tld: no white space, one "@" with something
\* before it, and after it something, a "." and something.
LocalAtDomainTld(e) ==
    \E at, dot \in 1..Len(e) :
        /\ 1 < at /\ at + 1 < dot /\ dot < Len(e)
        /\ e[dot] = "."
        /\ \A i \in 1..Len(e) : e[i] # " " /\ (e[i] = "@" <=> i = at)

\* The Clean Record has the trimmed, lower-cased customer_email of its source row when
\* that has the shape, and none when it has not.
EmailKeptOrAbsent(record) ==
    IF LocalAtDomainTld(Strip(file[record.idx].customer_email))
    THEN record.customer_email = Casefold(Strip(file[record.idx].customer_email))
    ELSE record.customer_email = None

\* C23: a finished run keeps the lines and rejects, with the reasons, the lines that the
\* run over the same rows with the customer_email of each replaced by a valid one keeps
\* and rejects, so that rows that differ in customer_email alone have one outcome; and
\* every Clean Record has the trimmed, lower-cased customer_email of its row when that
\* matches local@domain.tld and no customer_email when it does not or is missing.
C23_EmailNeverDecides ==
    /\ \A k \in 1..Len(CleanRecords) : EmailKeptOrAbsent(CleanRecords[k])
    /\ (pc = "done" /\ cfg.save_rejected_rows) =>
           RunOver(WithBaseEmail(file), cfg, 1, {}, [kept |-> {}, reasons |-> {}])
               = KeptAndReasons

\* A finished run has a Clean Record without customer_email, from a row whose email has
\* not the shape, and a Clean Record with an email that was trimmed and lower-cased.
C23_Witness ==
    /\ pc = "done"
    /\ cfg.save_rejected_rows
    /\ \E k \in 1..Len(CleanRecords) :
          /\ CleanRecords[k].customer_email = None
          /\ Strip(file[CleanRecords[k].idx].customer_email) # <<>>
    /\ \E k \in 1..Len(CleanRecords) :
          /\ CleanRecords[k].customer_email # None
          /\ CleanRecords[k].customer_email # file[CleanRecords[k].idx].customer_email

(***************************************************************************)
(* C24                                                                     *)
(***************************************************************************)

\* The empty string and the null-ish placeholder tokens.
NullishTokens ==
    {<<>>, <<"N", "U", "L", "L">>, <<"n", "u", "l", "l">>, <<"N", "o", "n", "e">>,
     <<"n", "a", "n">>, <<"N", "/", "A">>}

\* C24 as stated: every row read so far whose order_id or product_name is, after
\* trimming, empty or a null-ish placeholder token has been rejected with
\* missing_order_id_or_product.
C24_PlaceholdersAreMissing ==
    cfg.save_rejected_rows =>
        \A i \in 1..pos :
            (\/ Strip(file[i].order_id) \in NullishTokens
             \/ Strip(file[i].product_name) \in NullishTokens) =>
                RejectedWith(i, "missing_order_id_or_product")

(***************************************************************************)
(* C25                                                                     *)
(***************************************************************************)

\* The Clean Records written to the clean sink, in the order in which they were written.
WrittenRecords == RowsOf(clean_sink)

\* The records are in the order of the lines they come from, each line at most once.
InFileOrder(records) ==
    \A k, l \in 1..Len(records) : k < l => records[k].idx < records[l].idx

\* C25: the Clean Records of the clean sink are, in the order in which they were written,
\* records of source rows in their order in the file: the chunks are written one after
\* the other and the survivors of a chunk in the order of its rows.
C25_WrittenInFileOrder ==
    /\ InFileOrder(WrittenRecords)
    /\ \A k \in 1..Len(WrittenRecords) :
          /\ WrittenRecords[k].idx \in 1..pos
          /\ WrittenRecords[k].order_id = Strip(file[WrittenRecords[k].idx].order_id)
    /\ \A n \in 1..Len(clean_sink) : InFileOrder(clean_sink[n].rows)

\* Two chunks have been written, and between a record of the first and a record of the
\* second the file has a row that was not kept.
C25_Witness ==
    /\ \E m, n \in 1..Len(clean_sink) :
          /\ m < n
          /\ \E k \in 1..Len(clean_sink[m].rows), l \in 1..Len(clean_sink[n].rows) :
                clean_sink[m].rows[k].idx + 1 < clean_sink[n].rows[l].idx
    /\ InFileOrder(WrittenRecords)

(***************************************************************************)
(* C26                                                                     *)
(***************************************************************************)

\* C26: a call of _levenshtein, or of levenshtein of the script, with max_distance = 2
\* returns the unit-cost edit distance of its arguments when that is at most 2 and a
\* number above 2 when it is more, so that a candidate is accepted exactly when its
\* distance is at most 2.
C26_DistanceExactWithinThreshold ==
    (call.fn \in {"_levenshtein", "levenshtein"} /\ call.done) =>
        IF EditDistance(call.arg[1], call.arg[2]) <= 2
        THEN call.result = EditDistance(call.arg[1], call.arg[2])
        ELSE call.result > 2

\* A call has returned more than 2 for two strings more than two edits apart whose
\* lengths differ by at most 2, where the length shortcut does not apply.
C26_Witness ==
    /\ call.fn = "_levenshtein"
    /\ call.done
    /\ call.arg[1] # <<>>
    /\ call.arg[2] # <<>>
    /\ Abs(Len(call.arg[1]) - Len(call.arg[2])) = 2
    /\ EditDistance(call.arg[1], call.arg[2]) > 2
    /\ call.result > 2

(***************************************************************************)
(* C27                                                                     *)
(***************************************************************************)

\* The positions, in the sorted canonical list, of the categories at the least distance
\* from the argument.
NearestCategories ==
    {c \in 1..Len(canonical_categories) :
        CategoryDistance(canonical_categories[c]) = MinCategoryDistance}

\* The greatest of a set of positions.
LastOf(positions) == CHOOSE i \in positions : \A j \in positions : j <= i

Uncached(fn, arg) ==
    IF fn = "category" THEN _resolve_category(arg)
    ELSE IF fn = "region" THEN _resolve_region(arg)
    ELSE _parse_multiple_date_formats(arg)

\* Every entry of the cache holds what the function computes for its key.
Faithful(fn, cache) == \A i \in 1..Len(cache) : cache[i][2] = Uncached(fn, cache[i][1])

\* C28: memoization is transparent.  Whatever calls came before, a call of
\* _resolve_category, _resolve_region or _parse_multiple_date_formats returns what the
\* function computes without a cache, a failed parse included; and every cache entry,
\* which is what an earlier call with that input returned, holds that same value, so a
\* call returns what every earlier call with its input returned.
C28_MemoizationTransparent ==
    /\ (call.done /\ call.fn \in {"category", "region", "date"})
           => call.result = Uncached(call.fn, call.arg)
    /\ Faithful("category", memo.category)
    /\ Faithful("region", memo.region)
    /\ Faithful("date", memo.date)

\* A category evicted from the full cache has been asked for again and computed again,
\* while the date cache holds a failed parse and a parsed date.
C28_Witness ==
    /\ call.done
    /\ call.fn = "category"
    /\ memo.outcome = "recomputed"
    /\ call.result # None
    /\ Len(memo.category) = LruMaxSize
    /\ \E i, j \in 1..Len(memo.date) : memo.date[i][2] = None /\ memo.date[j][2] # None

(***************************************************************************)
(* C29                                                                     *)
(***************************************************************************)

\* The rows of a table, whatever their order.
TableRows(table) == {table.rows[i] : i \in 1..Len(table.rows)}

\* C29: for a clean dataset that has rows, however it is cut into batches, the chunked
\* builders return the rows of the in-memory builders: _monthly_sales_summary_chunked
\* those of _monthly_sales_summary and _category_discount_map_chunked those of
\* _category_discount_map, with the same avg_discount_percent, total_revenue and
\* order_count for every month and category.
C29_ChunkedMatchesInMemory ==
    /\ (call.done /\ call.fn = "_monthly_sales_summary_chunked")
           => TableRows(call.result) = TableRows(_monthly_sales_summary(call.arg.rows))
    /\ (call.done /\ call.fn = "_category_discount_map_chunked")
           => TableRows(call.result) = TableRows(_category_discount_map(call.arg.rows))

(***************************************************************************)
(* C30                                                                     *)
(***************************************************************************)

\* C30: build_all_aggregations writes empty tables only for a dataset without rows.  For
\* a dataset that has rows, whatever the size of its file and whether or not chunked
\* processing is forced, every table it writes is the one a builder computed from the
\* rows: that of the chunked builder or that of the in-memory builder.
C30_EmptyTablesOnlyForEmptyDataset ==
    (call.done /\ call.fn = "build_all_aggregations" /\ call.arg.rows # <<>>)
        => \A name \in AggregationNames :
               \/ call.result[name] = ChunkedAggregations(call.arg, 10, 5)[name]
               \/ call.result[name] = InMemoryAggregations(call.arg.rows, 10, 5)[name]

====
